---- MODULE Spec2Model ----
(***************************************************************************)
(* Model of the atc (ai-auto-test-cmd) test-case variation engine:         *)
(* the local-gen pipeline (cmd/localGen.go), the message parser, the       *)
(* variation engine and the serializers (utils generator, part_008), and   *)
(* the constraint registry (utils/constraints.go, utils/config.go).        *)
(*                                                                         *)
(* Text is modelled as a sequence of one-character strings, so that the    *)
(* raw-text scans of the parser and the escaping of the serializers are    *)
(* computed character by character as the Go code does.                    *)
(***************************************************************************)
EXTENDS Integers, Sequences, FiniteSets, TLC

VARIABLES
    pc,                          \* position of the local-gen run ("lib": library calls in any order)
    xmlContent,                  \* the --xml flag (localGen.go:39)
    jsonContent,                 \* the --json flag (localGen.go:40)
    errKind,                     \* "none", or the kind of the error that ended the run
    errEntries,                  \* the ValidationErrors of the last validation that failed
    inputContent,                \* the positive example text of the run
    isXML,                       \* format of the run
    num,                         \* requested number of cases
    configFile,                  \* the configuration file named by --config (NoFile when the flag is empty)
    useConstraints,              \* localGen.go:180
    originalKeyOrder,            \* part_008:20
    originalValueTypes,          \* part_008:21
    originalRootElementName,     \* part_008:22
    originalHasXMLDeclaration,   \* part_008:23
    originalXMLDeclaration,      \* part_008:24
    globalConstraintConfig,      \* constraints.go:46
    data,                        \* the parsed document (map[string]any)
    testCases,                   \* the generated variants
    csvData,                     \* rows produced by ConvertTo*Rows
    csvFile,                     \* rows written by SaveToCSV
    lastLoad,                    \* history: the configuration given to the last successful load
    calls,                       \* history: the library calls made, in order
    ret,                         \* history: the last direct call of a library function and what it returned
    exec,                        \* the --exec flag (localGen.go:44)
    requests,                    \* the HTTP requests built for the generated cases, or given to a send
    concurrency,                 \* http.go:99: the concurrency argument of SendConcurrentRequests
    responses,                   \* http.go:105: the slice of responses, and the slice returned
    jobs,                        \* http.go:108: the job channel, its buffer and whether it is closed
    results,                     \* http.go:109: the buffer of the result channel
    workers,                     \* http.go:116: the worker goroutines, each its position and what it holds
    main,                        \* the position of the goroutine running SendConcurrentRequests, and its loop counters
    produced                     \* history: per request, the responses SendRequest produced for it, in order

vars == <<pc, xmlContent, jsonContent, errKind, errEntries, inputContent, isXML, num, configFile, useConstraints,
          originalKeyOrder, originalValueTypes, originalRootElementName,
          originalHasXMLDeclaration, originalXMLDeclaration, globalConstraintConfig,
          data, testCases, csvData, csvFile, lastLoad, calls, ret,
          exec, requests, concurrency, responses, jobs, results, workers, main, produced>>

\* the state of a call of SendConcurrentRequests
sendVars == <<concurrency, responses, jobs, results, workers, main, produced>>

(***************************************************************************)
(* Bounds of the model.                                                    *)
(***************************************************************************)
MaxNum == 2          \* requested counts range over 0..MaxNum
RngSteps == 2        \* a draw rand.Intn(n) ranges over RngSteps+1 evenly spread outcomes of 0..n-1

(***************************************************************************)
(* Characters and strings                                                  *)
(***************************************************************************)
Ascii == <<"\t", "\n", "\r", " ", "!", "\"", "#", "$", "%", "&", "'", "(", ")", "*", "+", ",",
           "-", ".", "/", "0", "1", "2", "3", "4", "5", "6", "7", "8", "9", ":", ";", "<",
           "=", ">", "?", "@", "A", "B", "C", "D", "E", "F", "G", "H", "I", "J", "K", "L",
           "M", "N", "O", "P", "Q", "R", "S", "T", "U", "V", "W", "X", "Y", "Z", "[", "\\",
           "]", "^", "_", "a", "b", "c", "d", "e", "f", "g", "h", "i", "j", "k", "l",
           "m", "n", "o", "p", "q", "r", "s", "t", "u", "v", "w", "x", "y", "z", "{", "|",
           "}", "~">>

\* Byte order of a character (the order sort.Strings compares by).
Code(c) == CHOOSE i \in 1..Len(Ascii) : Ascii[i] = c

Digits == {"0", "1", "2", "3", "4", "5", "6", "7", "8", "9"}
DigitVal(c) == Code(c) - Code("0")
DigitChar(d) == Ascii[Code("0") + d]

ControlChars == {"\t", "\n", "\r"}
IsSpace(c) == c \in {" ", "\n", "\t", "\r"}

RECURSIVE Concat(_)
Concat(ss) == IF ss = <<>> THEN <<>> ELSE Head(ss) \o Concat(Tail(ss))

Drop(s, k) == SubSeq(s, k + 1, Len(s))
Take(s, k) == SubSeq(s, 1, k)

HasPrefixAt(t, i, p) == i + Len(p) - 1 <= Len(t) /\ SubSeq(t, i, i + Len(p) - 1) = p
HasPrefix(t, p) == HasPrefixAt(t, 1, p)
HasSuffix(t, p) == Len(p) <= Len(t) /\ SubSeq(t, Len(t) - Len(p) + 1, Len(t)) = p

\* strings.Index(t[i..], p) as an absolute position, 0 when absent
RECURSIVE IndexFrom(_, _, _)
IndexFrom(t, i, p) ==
    IF i + Len(p) - 1 > Len(t) THEN 0
    ELSE IF HasPrefixAt(t, i, p) THEN i
    ELSE IndexFrom(t, i + 1, p)

Contains(t, p) == IndexFrom(t, 1, p) # 0

\* index of the first character from position i on that lies in set cs, 0 when none
RECURSIVE IndexAnyFrom(_, _, _)
IndexAnyFrom(t, i, cs) ==
    IF i > Len(t) THEN 0
    ELSE IF t[i] \in cs THEN i
    ELSE IndexAnyFrom(t, i + 1, cs)

\* strings.ReplaceAll for a one-character pattern
RECURSIVE ReplaceAll(_, _, _)
ReplaceAll(t, c, r) ==
    IF t = <<>> THEN <<>>
    ELSE (IF Head(t) = c THEN r ELSE <<Head(t)>>) \o ReplaceAll(Tail(t), c, r)

RECURSIVE TrimLeft(_)
TrimLeft(t) == IF t # <<>> /\ IsSpace(Head(t)) THEN TrimLeft(Tail(t)) ELSE t
RECURSIVE TrimRight(_)
TrimRight(t) == IF t # <<>> /\ IsSpace(t[Len(t)]) THEN TrimRight(Take(t, Len(t) - 1)) ELSE t
TrimSpace(t) == TrimRight(TrimLeft(t))

Lowers == <<"a", "b", "c", "d", "e", "f", "g", "h", "i", "j", "k", "l", "m", "n", "o", "p",
            "q", "r", "s", "t", "u", "v", "w", "x", "y", "z">>
Uppers == <<"A", "B", "C", "D", "E", "F", "G", "H", "I", "J", "K", "L", "M", "N", "O", "P",
            "Q", "R", "S", "T", "U", "V", "W", "X", "Y", "Z">>
ToLowerChar(c) == IF \E i \in 1..Len(Uppers) : Uppers[i] = c
                  THEN Lowers[CHOOSE i \in 1..Len(Uppers) : Uppers[i] = c] ELSE c
ToLower(t) == [i \in 1..Len(t) |-> ToLowerChar(t[i])]
ToUpperChar(c) == IF \E i \in 1..Len(Lowers) : Lowers[i] = c
                  THEN Uppers[CHOOSE i \in 1..Len(Lowers) : Lowers[i] = c] ELSE c
ToUpper(t) == [i \in 1..Len(t) |-> ToUpperChar(t[i])]

\* byte-wise lexicographic order of two strings
RECURSIVE StrLess(_, _)
StrLess(a, b) ==
    IF b = <<>> THEN FALSE
    ELSE IF a = <<>> THEN TRUE
    ELSE IF Head(a) = Head(b) THEN StrLess(Tail(a), Tail(b))
    ELSE Code(Head(a)) < Code(Head(b))

\* sort.Strings of a set of distinct strings
RECURSIVE SortStrings(_)
SortStrings(S) ==
    IF S = {} THEN <<>>
    ELSE LET m == CHOOSE x \in S : \A y \in S \ {x} : StrLess(x, y)
         IN <<m>> \o SortStrings(S \ {m})

\* every ordering of a set: the iteration orders of a Go map
RECURSIVE Perms(_)
Perms(S) ==
    IF S = {} THEN {<<>>}
    ELSE UNION {{<<x>> \o p : p \in Perms(S \ {x})} : x \in S}

\* decimal rendering of an integer (%d, strconv.FormatInt)
RECURSIVE NatStr(_)
NatStr(n) == IF n < 10 THEN <<DigitChar(n)>> ELSE NatStr(n \div 10) \o <<DigitChar(n % 10)>>
IntStr(n) == IF n < 0 THEN <<"-">> \o NatStr(-n) ELSE NatStr(n)

IsDigits(t) == t # <<>> /\ \A i \in 1..Len(t) : t[i] \in Digits
RECURSIVE DigitsVal(_)
DigitsVal(t) == IF t = <<>> THEN 0 ELSE 10 * DigitsVal(Take(t, Len(t) - 1)) + DigitVal(t[Len(t)])

(***************************************************************************)
(* The JSON grammar, as encoding/json reads it (ParseJSON's decoder, and   *)
(* the reading of a rendered row).  A parsed text is an ordered tree:      *)
(*   [t |-> "obj", v |-> <<[k |-> key, val |-> tree], ...>>]                *)
(*   [t |-> "arr", v |-> <<tree, ...>>]   [t |-> "str", v |-> chars]       *)
(*   [t |-> "num", v |-> literal chars]   [t |-> "bool", v |-> B]          *)
(*   [t |-> "null"]                                                        *)
(***************************************************************************)
JFail == [ok |-> FALSE, v |-> [t |-> "null"], n |-> 0]
JOk(v, n) == [ok |-> TRUE, v |-> v, n |-> n]

RECURSIVE SkipWS(_, _)
SkipWS(t, i) == IF i <= Len(t) /\ IsSpace(t[i]) THEN SkipWS(t, i + 1) ELSE i

JUnescape(c) ==
    CASE c = "n" -> "\n" [] c = "t" -> "\t" [] c = "r" -> "\r" [] OTHER -> c

\* <, > and & are the escapes json.Marshal writes for < > &
JUnicode(h) ==
    CASE h = <<"0", "0", "3", "c">> -> "<"
      [] h = <<"0", "0", "3", "e">> -> ">"
      [] h = <<"0", "0", "2", "6">> -> "&"
      [] OTHER -> "?"

\* the string whose opening quote precedes position i
RECURSIVE JString(_, _, _)
JString(t, i, acc) ==
    IF i > Len(t) THEN JFail
    ELSE IF t[i] = "\"" THEN JOk(acc, i + 1)
    ELSE IF t[i] = "\\" THEN
        IF i + 1 > Len(t) THEN JFail
        ELSE IF t[i + 1] \in {"\"", "\\", "/", "n", "t", "r"}
             THEN JString(t, i + 2, Append(acc, JUnescape(t[i + 1])))
        ELSE IF t[i + 1] = "u" /\ i + 5 <= Len(t)
             THEN JString(t, i + 6, Append(acc, JUnicode(SubSeq(t, i + 2, i + 5))))
        ELSE JFail
    ELSE IF t[i] \in ControlChars THEN JFail
    ELSE JString(t, i + 1, Append(acc, t[i]))

RECURSIVE DigitRun(_, _)
DigitRun(t, i) == IF i <= Len(t) /\ t[i] \in Digits THEN DigitRun(t, i + 1) ELSE i

\* -?(0|[1-9][0-9]*)(\.[0-9]+)?
JNumber(t, i) ==
    LET s == IF i <= Len(t) /\ t[i] = "-" THEN i + 1 ELSE i
        e == DigitRun(t, s)
        intOk == e > s /\ (t[s] # "0" \/ e = s + 1)
        f == IF e <= Len(t) /\ t[e] = "." THEN DigitRun(t, e + 1) ELSE e
        fracOk == f = e \/ f > e + 1
    IN IF intOk /\ fracOk THEN JOk([t |-> "num", v |-> SubSeq(t, i, f - 1)], f) ELSE JFail

RECURSIVE JValue(_, _), JMembers(_, _, _), JElements(_, _, _)
JValue(t, i0) ==
    LET i == SkipWS(t, i0)
    IN IF i > Len(t) THEN JFail
       ELSE IF t[i] = "{" THEN
            LET j == SkipWS(t, i + 1)
            IN IF j <= Len(t) /\ t[j] = "}" THEN JOk([t |-> "obj", v |-> <<>>], j + 1)
               ELSE JMembers(t, j, <<>>)
       ELSE IF t[i] = "[" THEN
            LET j == SkipWS(t, i + 1)
            IN IF j <= Len(t) /\ t[j] = "]" THEN JOk([t |-> "arr", v |-> <<>>], j + 1)
               ELSE JElements(t, j, <<>>)
       ELSE IF t[i] = "\"" THEN
            LET r == JString(t, i + 1, <<>>)
            IN IF r.ok THEN JOk([t |-> "str", v |-> r.v], r.n) ELSE JFail
       ELSE IF HasPrefixAt(t, i, <<"t", "r", "u", "e">>) THEN JOk([t |-> "bool", v |-> TRUE], i + 4)
       ELSE IF HasPrefixAt(t, i, <<"f", "a", "l", "s", "e">>) THEN JOk([t |-> "bool", v |-> FALSE], i + 5)
       ELSE IF HasPrefixAt(t, i, <<"n", "u", "l", "l">>) THEN JOk([t |-> "null"], i + 4)
       ELSE JNumber(t, i)

\* members of an object from position i on (a key is expected), acc the members read
JMembers(t, i0, acc) ==
    LET i == SkipWS(t, i0)
    IN IF i > Len(t) \/ t[i] # "\"" THEN JFail
       ELSE LET k == JString(t, i + 1, <<>>)
            IN IF ~k.ok THEN JFail
               ELSE LET c == SkipWS(t, k.n)
                    IN IF c > Len(t) \/ t[c] # ":" THEN JFail
                       ELSE LET val == JValue(t, c + 1)
                            IN IF ~val.ok THEN JFail
                               ELSE LET e == SkipWS(t, val.n)
                                        acc2 == Append(acc, [k |-> k.v, val |-> val.v])
                                    IN IF e > Len(t) THEN JFail
                                       ELSE IF t[e] = "}" THEN JOk([t |-> "obj", v |-> acc2], e + 1)
                                       ELSE IF t[e] = "," THEN JMembers(t, e + 1, acc2)
                                       ELSE JFail

JElements(t, i0, acc) ==
    LET val == JValue(t, i0)
    IN IF ~val.ok THEN JFail
       ELSE LET e == SkipWS(t, val.n)
                acc2 == Append(acc, val.v)
            IN IF e > Len(t) THEN JFail
               ELSE IF t[e] = "]" THEN JOk([t |-> "arr", v |-> acc2], e + 1)
               ELSE IF t[e] = "," THEN JElements(t, e + 1, acc2)
               ELSE JFail

\* a whole text: one value and nothing but white space after it (json.Unmarshal)
JSONDecode(t) ==
    LET r == JValue(t, 1)
    IN IF r.ok /\ SkipWS(t, r.n) = Len(t) + 1 THEN r ELSE JFail

(***************************************************************************)
(* Go values (any):                                                        *)
(*   [t |-> "nil"]   [t |-> "int", w |-> "int" | "int64", v |-> n]         *)
(*   [t |-> "float", m |-> mantissa, d |-> decimals]  (value m / 10^d,     *)
(*        kept normalised: a float64 holds no trailing zeros)              *)
(*   [t |-> "str", v |-> chars]   [t |-> "bool", v |-> B]                  *)
(*   [t |-> "arr", v |-> <<...>>]   [t |-> "map", v |-> [keys -> values]]  *)
(*   [t |-> "jnum", v |-> literal]  (a json.Number before convertNumbers)  *)
(***************************************************************************)
GoNil == [t |-> "nil"]
GoInt(w, n) == [t |-> "int", w |-> w, v |-> n]
GoStr(s) == [t |-> "str", v |-> s]
GoBool(b) == [t |-> "bool", v |-> b]
GoArr(s) == [t |-> "arr", v |-> s]
GoMap(f) == [t |-> "map", v |-> f]
EmptyMap == [k \in {} |-> GoNil]

RECURSIVE NormFloat(_, _)
NormFloat(m, d) == IF d > 0 /\ m % 10 = 0 THEN NormFloat(m \div 10, d - 1) ELSE [t |-> "float", m |-> m, d |-> d]

\* map index with Go's zero value for an absent key
MapGet(m, k) == IF k \in DOMAIN m THEN m[k] ELSE GoNil

\* a map built by assigning the members in order (a repeated key keeps its last value)
MapOfMembers(ms, conv(_)) ==
    [k \in {ms[i].k : i \in 1..Len(ms)} |->
        conv(ms[CHOOSE i \in 1..Len(ms) : ms[i].k = k /\ \A j \in (i + 1)..Len(ms) : ms[j].k # k].val)]

\* what Decoder.Decode with UseNumber stores for a JSON tree
RECURSIVE JSONToGo(_)
JSONToGo(tr) ==
    CASE tr.t = "obj" -> GoMap(MapOfMembers(tr.v, JSONToGo))
      [] tr.t = "arr" -> GoArr([i \in 1..Len(tr.v) |-> JSONToGo(tr.v[i])])
      [] tr.t = "str" -> GoStr(tr.v)
      [] tr.t = "num" -> [t |-> "jnum", v |-> tr.v]
      [] tr.t = "bool" -> GoBool(tr.v)
      [] OTHER -> GoNil

MaxInt32 == 2147483647
MinInt32 == -MaxInt32 - 1

\* strconv.ParseInt(s, 10, 64) (magnitudes of the model stay far below 2^63)
IsIntLit(s) ==
    \/ IsDigits(s)
    \/ Len(s) > 1 /\ s[1] \in {"-", "+"} /\ IsDigits(Tail(s))
IntLitVal(s) ==
    IF s[1] = "-" THEN -DigitsVal(Tail(s))
    ELSE IF s[1] = "+" THEN DigitsVal(Tail(s))
    ELSE DigitsVal(s)

\* strconv.ParseFloat for plain decimal literals: [+-]digits[.digits] and [+-].digits
IsFloatLit(s) ==
    LET b == IF s # <<>> /\ s[1] \in {"-", "+"} THEN Tail(s) ELSE s
        p == IndexFrom(b, 1, <<".">>)
    IN IF p = 0 THEN IsDigits(b)
       ELSE /\ \A i \in 1..Len(b) : i # p => b[i] \in Digits
            /\ Len(b) > 1
FloatLitVal(s) ==
    LET neg == s[1] = "-"
        b == IF s[1] \in {"-", "+"} THEN Tail(s) ELSE s
        p == IndexFrom(b, 1, <<".">>)
        ds == IF p = 0 THEN b ELSE Take(b, p - 1) \o Drop(b, p)
        d == IF p = 0 THEN 0 ELSE Len(b) - p
        m == DigitsVal(ds)
    IN NormFloat(IF neg THEN -m ELSE m, d)

\* part_008:489-506, 516-527: one json.Number
convertNumber(lit) ==
    IF IsIntLit(lit)
    THEN LET n == IntLitVal(lit)
         IN IF n >= MinInt32 /\ n <= MaxInt32 THEN GoInt("int", n) ELSE GoInt("int64", n)
    ELSE IF IsFloatLit(lit) THEN FloatLitVal(lit)
    ELSE GoStr(lit)

\* part_008:485-538
RECURSIVE convertNumbers(_)
convertNumbers(m) ==
    [key \in DOMAIN m |->
        LET value == m[key]
        IN CASE value.t = "jnum" -> convertNumber(value.v)
             [] value.t = "map" -> GoMap(convertNumbers(value.v))
             [] value.t = "arr" ->
                  GoArr([i \in 1..Len(value.v) |->
                      LET item == value.v[i]
                      IN CASE item.t = "map" -> GoMap(convertNumbers(item.v))
                           [] item.t = "jnum" -> convertNumber(item.v)
                           [] OTHER -> item])
             [] OTHER -> value]

\* part_008:590-630: the scan of extractJSONKeys, s the state after the characters before i
RECURSIVE extractJSONKeysScan(_, _, _)
extractJSONKeysScan(js, i, s) ==
    IF i > Len(js) THEN s.keys
    ELSE
      LET ch == js[i]
          toggles == ch = "\"" /\ (i = 1 \/ js[i - 1] # "\\")
          inQuote == IF toggles THEN ~s.inQuote ELSE s.inQuote
          top == s.inArray = 0 /\ s.inObject = 0
          start == IF toggles /\ inQuote /\ top THEN i + 1 ELSE s.start
          key1 == IF toggles /\ ~inQuote /\ top THEN SubSeq(js, s.start, i - 1) ELSE s.key
          isKey == ch = ":" /\ ~inQuote /\ top /\ key1 # <<>>
          keys == IF isKey THEN Append(s.keys, key1) ELSE s.keys
          key2 == IF isKey THEN <<>> ELSE key1
          inArray == IF ch = "[" /\ ~inQuote THEN s.inArray + 1
                     ELSE IF ch = "]" /\ ~inQuote THEN s.inArray - 1 ELSE s.inArray
          inObject == IF ch = "{" /\ ~inQuote THEN s.inObject + 1
                      ELSE IF ch = "}" /\ ~inQuote THEN s.inObject - 1 ELSE s.inObject
          key3 == IF ch = "," /\ ~inQuote /\ inArray = 0 /\ inObject = 0 THEN <<>> ELSE key2
      IN extractJSONKeysScan(js, i + 1,
            [inQuote |-> inQuote, inArray |-> inArray, inObject |-> inObject,
             start |-> start, key |-> key3, keys |-> keys])

\* part_008:568-633
extractJSONKeys(jsonStr) ==
    LET s1 == ReplaceAll(ReplaceAll(ReplaceAll(jsonStr, " ", <<>>), "\n", <<>>), "\t", <<>>)
    IN IF ~HasPrefix(s1, <<"{">>) \/ ~HasSuffix(s1, <<"}">>) THEN <<>>
       ELSE extractJSONKeysScan(SubSeq(s1, 2, Len(s1) - 1), 1,
               [inQuote |-> FALSE, inArray |-> 0, inObject |-> 0, start |-> 1,
                key |-> <<>>, keys |-> <<>>])

\* part_008:541-565: ParseJSON as a function of the text and the key order held before the call
\* (Decoder.Decode reads the first JSON value of the text; null decodes to a nil map)
ParseJSON(jsonStr, keyOrderBefore) ==
    LET r == JValue(jsonStr, 1)
        keys == extractJSONKeys(jsonStr)
    IN IF ~r.ok \/ r.v.t \notin {"obj", "null"}
       THEN [err |-> TRUE, result |-> EmptyMap, keyOrder |-> keyOrderBefore]
       ELSE [err |-> FALSE,
             result |-> IF r.v.t = "null" THEN EmptyMap ELSE convertNumbers(JSONToGo(r.v).v),
             keyOrder |-> IF Len(keys) > 0 THEN keys ELSE keyOrderBefore]

(***************************************************************************)
(* The XML grammar, as encoding/xml reads it (XMLToMap's decoder, and the  *)
(* reading of a rendered row).  An element is                              *)
(*   [name |-> chars, attrs |-> <<[k |-> chars, v |-> chars], ...>>,       *)
(*    text |-> the element's own character data, kids |-> <<element...>>]  *)
(***************************************************************************)
XNode(name, attrs, text, kids) == [name |-> name, attrs |-> attrs, text |-> text, kids |-> kids]
XFail == [ok |-> FALSE, v |-> XNode(<<>>, <<>>, <<>>, <<>>), n |-> 0]
XOk(v, n) == [ok |-> TRUE, v |-> v, n |-> n]

NameStartChars == {Lowers[i] : i \in 1..Len(Lowers)} \cup {Uppers[i] : i \in 1..Len(Uppers)} \cup {"_", ":"}
NameChars == NameStartChars \cup Digits \cup {"-", "."}

RECURSIVE NameRun(_, _)
NameRun(t, i) == IF i <= Len(t) /\ t[i] \in NameChars THEN NameRun(t, i + 1) ELSE i

XEntity(t, i) ==
    CASE HasPrefixAt(t, i, <<"&", "a", "m", "p", ";">>) -> [c |-> "&", n |-> i + 5]
      [] HasPrefixAt(t, i, <<"&", "l", "t", ";">>) -> [c |-> "<", n |-> i + 4]
      [] HasPrefixAt(t, i, <<"&", "g", "t", ";">>) -> [c |-> ">", n |-> i + 4]
      [] HasPrefixAt(t, i, <<"&", "q", "u", "o", "t", ";">>) -> [c |-> "\"", n |-> i + 6]
      [] HasPrefixAt(t, i, <<"&", "a", "p", "o", "s", ";">>) -> [c |-> "'", n |-> i + 6]
      [] OTHER -> [c |-> "&", n |-> 0]

\* attributes from position i on, up to the > or /> that ends the tag
RECURSIVE XAttrs(_, _, _)
XAttrs(t, i0, acc) ==
    LET i == SkipWS(t, i0)
    IN IF i > Len(t) THEN XFail
       ELSE IF t[i] = ">" \/ HasPrefixAt(t, i, <<"/", ">">>) THEN XOk(acc, i)
       ELSE IF i = i0 \/ t[i] \notin NameStartChars THEN XFail
       ELSE LET e == NameRun(t, i)
                q == e + 1
            IN IF e > Len(t) \/ t[e] # "=" \/ q > Len(t) \/ t[q] \notin {"\"", "'"} THEN XFail
               ELSE LET c == IndexFrom(t, q + 1, <<t[q]>>)
                    IN IF c = 0 \/ Contains(SubSeq(t, q + 1, c - 1), <<"<">>) THEN XFail
                       ELSE XAttrs(t, c + 1, Append(acc, [k |-> SubSeq(t, i, e - 1),
                                                         v |-> SubSeq(t, q + 1, c - 1)]))

RECURSIVE XElement(_, _), XContent(_, _, _, _, _)
\* the element whose < is at position i
XElement(t, i) ==
    IF i + 1 > Len(t) \/ t[i] # "<" \/ t[i + 1] \notin NameStartChars THEN XFail
    ELSE LET e == NameRun(t, i + 1)
             name == SubSeq(t, i + 1, e - 1)
             a == XAttrs(t, e, <<>>)
         IN IF ~a.ok THEN XFail
            ELSE IF t[a.n] = "/" THEN XOk(XNode(name, a.v, <<>>, <<>>), a.n + 2)
            ELSE XContent(t, a.n + 1, name, a.v, [text |-> <<>>, kids |-> <<>>])

\* the content of element name from position i on, up to and including its end tag
XContent(t, i, name, attrs, acc) ==
    IF i > Len(t) THEN XFail
    ELSE IF HasPrefixAt(t, i, <<"<", "/">>) THEN
        LET e == NameRun(t, i + 2)
            c == SkipWS(t, e)
        IN IF SubSeq(t, i + 2, e - 1) = name /\ c <= Len(t) /\ t[c] = ">"
           THEN XOk(XNode(name, attrs, acc.text, acc.kids), c + 1)
           ELSE XFail
    ELSE IF HasPrefixAt(t, i, <<"<", "!", "-", "-">>) THEN
        LET c == IndexFrom(t, i + 4, <<"-", "-", ">">>)
        IN IF c = 0 THEN XFail ELSE XContent(t, c + 3, name, attrs, acc)
    ELSE IF t[i] = "<" THEN
        LET k == XElement(t, i)
        IN IF ~k.ok THEN XFail
           ELSE XContent(t, k.n, name, attrs, [acc EXCEPT !.kids = Append(@, k.v)])
    ELSE IF t[i] = "&" THEN
        LET en == XEntity(t, i)
        IN IF en.n = 0 THEN XFail
           ELSE XContent(t, en.n, name, attrs, [acc EXCEPT !.text = Append(@, en.c)])
    ELSE XContent(t, i + 1, name, attrs, [acc EXCEPT !.text = Append(@, t[i])])

\* white space and comments from position i on
RECURSIVE XSkipMisc(_, _)
XSkipMisc(t, i0) ==
    LET i == SkipWS(t, i0)
    IN IF HasPrefixAt(t, i, <<"<", "!", "-", "-">>)
       THEN LET c == IndexFrom(t, i + 4, <<"-", "-", ">">>)
            IN IF c = 0 THEN i ELSE XSkipMisc(t, c + 3)
       ELSE i

XMLDeclStart == <<"<", "?", "x", "m", "l">>

\* the prologue of a document: its XML declaration (empty when it has none), and the
\* position and name of its root element
XProlog(t) ==
    LET i == SkipWS(t, 1)
        hasDecl == HasPrefixAt(t, i, XMLDeclStart \o <<" ">>)
        dEnd == IF hasDecl THEN IndexFrom(t, i, <<"?", ">">>) ELSE 0
        r == XSkipMisc(t, IF hasDecl /\ dEnd # 0 THEN dEnd + 2 ELSE i)
        e == NameRun(t, r + 1)
    IN IF (hasDecl /\ dEnd = 0) \/ r + 1 > Len(t) \/ t[r] # "<" \/ t[r + 1] \notin NameStartChars
       THEN [ok |-> FALSE, decl |-> <<>>, root |-> <<>>, n |-> 0]
       ELSE [ok |-> TRUE, decl |-> IF hasDecl THEN SubSeq(t, i, dEnd + 1) ELSE <<>>,
             root |-> SubSeq(t, r + 1, e - 1), n |-> r]

\* a whole document: prologue, one root element, and nothing but white space and comments after
XMLDecode(t) ==
    LET p == XProlog(t)
        r == IF p.ok THEN XElement(t, p.n) ELSE XFail
    IN IF r.ok /\ XSkipMisc(t, r.n) = Len(t) + 1 THEN r ELSE XFail

(***************************************************************************)
(* XMLToMap, nodeToMap, simplifyXMLMap                                     *)
(***************************************************************************)
KeyName == <<"_", "n", "a", "m", "e">>
KeyContent == <<"#", "c", "o", "n", "t", "e", "n", "t">>
KeyAttrs == <<"@", "a", "t", "t", "r", "s">>

\* strconv.ParseBool
BoolLits == {<<"1">>, <<"t">>, <<"T">>, <<"T", "R", "U", "E">>, <<"t", "r", "u", "e">>, <<"T", "r", "u", "e">>,
             <<"0">>, <<"f">>, <<"F">>, <<"F", "A", "L", "S", "E">>, <<"f", "a", "l", "s", "e">>,
             <<"F", "a", "l", "s", "e">>}
BoolLitVal(s) == s[1] \in {"1", "t", "T"}

\* part_008:258-280 (and 302-322): the typed value of an element's trimmed character data
xmlScalar(content) ==
    LET s == TrimSpace(content)
    IN IF s = <<>> THEN GoNil
       ELSE IF IsIntLit(s) THEN GoInt("int64", IntLitVal(s))
       ELSE IF IsFloatLit(s) THEN FloatLitVal(s)
       ELSE IF s \in BoolLits THEN GoBool(BoolLitVal(s))
       ELSE GoStr(s)

\* part_008:440-474: the children of a node grouped by name, a repeated name becoming an array
childNodes(kids, conv(_)) ==
    [name \in {kids[i].name : i \in 1..Len(kids)} |->
        LET idx == {i \in 1..Len(kids) : kids[i].name = name}
            RECURSIVE inOrder(_)
            inOrder(S) == IF S = {} THEN <<>>
                          ELSE LET m == CHOOSE x \in S : \A y \in S : x <= y
                               IN <<conv(kids[m])>> \o inOrder(S \ {m})
        IN IF Cardinality(idx) = 1 THEN conv(kids[CHOOSE i \in idx : TRUE])
           ELSE GoArr(inOrder(idx))]

\* part_008:409-476: nodeToMap of an XMLNode
RECURSIVE nodeToMap(_)
nodeToMap(node) ==
    LET content == TrimSpace(node.text)
        base == [k \in {KeyName} |-> GoStr(node.name)]
        withContent == IF content # <<>> THEN (KeyContent :> GoStr(content)) @@ base ELSE base
        withAttrs == IF Len(node.attrs) > 0
                     THEN (KeyAttrs :> GoMap([k \in {node.attrs[i].k : i \in 1..Len(node.attrs)} |->
                              GoStr((CHOOSE a \in {node.attrs[i] : i \in 1..Len(node.attrs)} : a.k = k).v)]))
                          @@ withContent
                     ELSE withContent
    IN GoMap(childNodes(node.kids, nodeToMap) @@ withAttrs)

\* part_008:242-344
RECURSIVE simplifyXMLMap(_)
simplifyXMLMap(m) ==
    LET simple(v) ==
            IF KeyContent \in DOMAIN v THEN xmlScalar(v[KeyContent].v)
            ELSE IF Cardinality(DOMAIN v) = 1 /\ KeyName \in DOMAIN v THEN GoNil
            ELSE GoMap(simplifyXMLMap(v))
        item(v) ==
            IF KeyContent \in DOMAIN v THEN xmlScalar(v[KeyContent].v)
            ELSE GoMap(simplifyXMLMap(v))
    IN [key \in DOMAIN m \ {KeyName, KeyAttrs} |->
          LET value == m[key]
          IN CASE value.t = "map" -> simple(value.v)
               [] value.t = "arr" ->
                    GoArr([i \in 1..Len(value.v) |->
                        IF value.v[i].t = "map" THEN item(value.v[i].v) ELSE value.v[i]])
               [] OTHER -> value]

\* part_008:215-239 (the decoder reads the document's root element)
XMLToMap(xmlStr) ==
    LET r == XMLDecode(xmlStr)
    IN IF ~r.ok THEN [err |-> TRUE, result |-> EmptyMap]
       ELSE [err |-> FALSE, result |-> simplifyXMLMap((r.v.name :> nodeToMap(r.v)))]

(***************************************************************************)
(* The regular expressions of ParseXML and extractXMLKeys                  *)
(***************************************************************************)
RECURSIVE RunExcept(_, _, _)
RunExcept(t, i, stop) == IF i <= Len(t) /\ t[i] \notin stop THEN RunExcept(t, i + 1, stop) ELSE i

NoMatch == [ok |-> FALSE, from |-> 0, to |-> 0, group |-> <<>>]

\* <\?xml[^>]*\?> : leftmost match from position i on
RECURSIVE xmlDeclRegex(_, _)
xmlDeclRegex(t, i) ==
    LET s == IndexFrom(t, i, XMLDeclStart)
        g == IF s = 0 THEN 0 ELSE IndexFrom(t, s + 5, <<">">>)
    IN IF s = 0 \/ g = 0 THEN NoMatch
       ELSE IF g - 1 >= s + 5 /\ t[g - 1] = "?"
            THEN [ok |-> TRUE, from |-> s, to |-> g, group |-> SubSeq(t, s, g)]
            ELSE xmlDeclRegex(t, s + 1)

\* <([^stop]+)[^>]*> matched at position s (the < is at s)
tagAt(t, s, stop) ==
    LET e == RunExcept(t, s + 1, stop)
        g == IndexFrom(t, e, <<">">>)
    IN IF s > Len(t) \/ t[s] # "<" \/ e = s + 1 \/ g = 0 THEN NoMatch
       ELSE [ok |-> TRUE, from |-> s, to |-> g, group |-> SubSeq(t, s + 1, e - 1)]

\* <\?xml[^>]*>\s*<([^\s>/]+)[^>]*> : leftmost match from position i on
RECURSIVE rootRegex(_, _)
rootRegex(t, i) ==
    LET s == IndexFrom(t, i, XMLDeclStart)
        g == IF s = 0 THEN 0 ELSE IndexFrom(t, s + 5, <<">">>)
        m == IF g = 0 THEN NoMatch ELSE tagAt(t, SkipWS(t, g + 1), {" ", "\n", "\t", "\r", ">", "/"})
    IN IF s = 0 \/ g = 0 THEN NoMatch
       ELSE IF m.ok THEN [m EXCEPT !.from = s]
       ELSE rootRegex(t, s + 1)

\* <([^\s>/!?]+)[^>]*> : leftmost match from position i on
RECURSIVE simpleRegex(_, _)
simpleRegex(t, i) ==
    LET s == IndexFrom(t, i, <<"<">>)
        m == tagAt(t, s, {" ", "\n", "\t", "\r", ">", "/", "!", "?"})
    IN IF s = 0 THEN NoMatch
       ELSE IF m.ok THEN m
       ELSE simpleRegex(t, s + 1)

\* part_008:112-121: the root element name extractXMLKeys works with; the second
\* alternative ^\s*<([^\s>/!?]+)[^>]*> matches at the start of the text only
extractXMLKeysRoot(t) ==
    LET a0 == IF HasPrefix(t, XMLDeclStart) THEN rootRegex(t, 1) ELSE NoMatch
        b0 == tagAt(t, SkipWS(t, 1), {" ", "\n", "\t", "\r", ">", "/", "!", "?"})
        a1 == rootRegex(t, 1)
    IN IF a0.ok /\ a0.from = 1 THEN a0.group
       ELSE IF b0.ok THEN b0.group
       ELSE IF a1.ok THEN a1.group
       ELSE <<>>

\* <ROOT[^>]*> : leftmost match
rootStartRegex(t, i, root) ==
    LET s == IndexFrom(t, i, <<"<">> \o root)
        g == IF s = 0 THEN 0 ELSE IndexFrom(t, s + 1 + Len(root), <<">">>)
    IN IF s = 0 \/ g = 0 THEN NoMatch
       ELSE [ok |-> TRUE, from |-> s, to |-> g, group |-> <<>>]

\* part_008:142-209: the scan of the root element's content, pos the next position to read
RECURSIVE extractXMLKeysScan(_, _, _)
extractXMLKeysScan(rc, pos0, keys) ==
    LET pos == SkipWS(rc, pos0)
    IN IF pos > Len(rc) THEN keys
       ELSE IF rc[pos] # "<" THEN extractXMLKeysScan(rc, pos + 1, keys)
       ELSE
         LET tagStart == pos + 1
             tagEnd == RunExcept(rc, tagStart, {" ", ">", "/"})
             tagName == SubSeq(rc, tagStart, tagEnd - 1)
             keys2 == IF \E i \in 1..Len(keys) : keys[i] = tagName THEN keys ELSE Append(keys, tagName)
             endTagPattern == <<"<", "/">> \o tagName \o <<">">>
             endTagPos == IndexFrom(rc, pos, endTagPattern)
             gt == IndexFrom(rc, pos, <<">">>)
             afterGT == IF gt = 0 THEN Len(rc) + 2 ELSE gt + 1
         IN IF tagEnd = tagStart THEN extractXMLKeysScan(rc, pos + 1, keys)
            ELSE IF endTagPos # 0 THEN extractXMLKeysScan(rc, endTagPos + Len(endTagPattern), keys2)
            ELSE extractXMLKeysScan(rc, afterGT, keys2)

\* part_008:106-212
extractXMLKeys(xmlStr) ==
    LET rootElement == extractXMLKeysRoot(xmlStr)
        startMatch == rootStartRegex(xmlStr, 1, rootElement)
        endMatch == IndexFrom(xmlStr, 1, <<"<", "/">> \o rootElement \o <<">">>)
    IN IF rootElement = <<>> \/ ~startMatch.ok \/ endMatch = 0 THEN [panic |-> FALSE, keys |-> <<>>]
       ELSE IF endMatch < startMatch.to + 1 THEN [panic |-> TRUE, keys |-> <<>>]
       ELSE [panic |-> FALSE,
             keys |-> extractXMLKeysScan(SubSeq(xmlStr, startMatch.to + 1, endMatch - 1), 1, <<>>)]

\* part_008:32-103: ParseXML as a function of the text and of the package variables
\* before the call; the results are the returned map and error and the package
\* variables after it.  keyOrders is the set of orders originalKeyOrder may take
\* (the keys of a Go map come in any order).  The declared encoding of the
\* examples is UTF-8, so the text is decoded as it stands.
ParseXMLOutcome(before, hasDecl, declMatch, parsed, rootM, simpleM, ex) ==
    LET decl == IF hasDecl /\ declMatch.ok THEN declMatch.group ELSE before.decl
        root == IF rootM.ok THEN rootM.group
                ELSE IF simpleM.ok THEN simpleM.group
                ELSE before.root
        rootMaps == {k \in DOMAIN parsed.result : parsed.result[k].t = "map"}
    IN IF parsed.err
       THEN [err |-> TRUE, panic |-> FALSE, result |-> EmptyMap, hasDecl |-> hasDecl, decl |-> decl,
             root |-> before.root, keyOrders |-> {before.keyOrder}]
       ELSE [err |-> FALSE, panic |-> ex.panic,
             result |-> IF rootMaps # {} THEN parsed.result[CHOOSE k \in rootMaps : TRUE].v
                        ELSE parsed.result,
             hasDecl |-> hasDecl, decl |-> decl, root |-> root,
             keyOrders |-> IF Len(ex.keys) > 0 THEN {ex.keys} ELSE Perms(DOMAIN parsed.result)]

ParseXML(xmlStr, before) ==
    ParseXMLOutcome(before, Contains(xmlStr, XMLDeclStart), xmlDeclRegex(xmlStr, 1), XMLToMap(xmlStr),
                    rootRegex(xmlStr, 1), simpleRegex(xmlStr, 1), extractXMLKeys(xmlStr))

(***************************************************************************)
(* Serializer                                                              *)
(***************************************************************************)
\* every concatenation of one text of each set of a sequence of sets of texts
RECURSIVE ConcatSets(_)
ConcatSets(ss) ==
    IF ss = <<>> THEN {<<>>}
    ELSE {h \o r : h \in Head(ss), r \in ConcatSets(Tail(ss))}

\* every sequence holding one element of each set of a sequence of sets
RECURSIVE SeqOfEach(_)
SeqOfEach(ss) ==
    IF ss = <<>> THEN {<<>>}
    ELSE {<<h>> \o r : h \in Head(ss), r \in SeqOfEach(Tail(ss))}

KeysIn(m, keys) == SelectSeq(keys, LAMBDA k : k \in DOMAIN m)

sTrue == <<"t", "r", "u", "e">>
sFalse == <<"f", "a", "l", "s", "e">>
sNull == <<"n", "u", "l", "l">>
BoolStr(b) == IF b THEN sTrue ELSE sFalse

RECURSIVE Zeros(_)
Zeros(k) == IF k <= 0 THEN <<>> ELSE <<"0">> \o Zeros(k - 1)
Abs(n) == IF n < 0 THEN -n ELSE n
RECURSIVE Pow10(_)
Pow10(k) == IF k <= 0 THEN 1 ELSE 10 * Pow10(k - 1)

\* strconv.FormatFloat(v, 'f', -1, 64) of the float m / 10^d: the shortest decimal
FormatFloatShortest(m, d) ==
    IF d = 0 THEN IntStr(m)
    ELSE LET digs == NatStr(Abs(m))
             padded == Zeros(d + 1 - Len(digs)) \o digs
         IN (IF m < 0 THEN <<"-">> ELSE <<>>) \o Take(padded, Len(padded) - d) \o <<".">>
            \o Drop(padded, Len(padded) - d)

\* part_008:1167-1175 (1042-1050 in buildXMLContent): a float that is an integer below
\* 1e15 in magnitude is written by %.0f, any other by FormatFloat 'f' -1
floatText(f) == IF f.d = 0 THEN IntStr(f.m) ELSE FormatFloatShortest(f.m, f.d)

\* part_008:1159-1161: the two replacements customJSONMarshal applies to a string
customEscape(s) == ReplaceAll(ReplaceAll(s, "\\", <<"\\", "\\">>), "\"", <<"\\", "\"">>)

\* encoding/json's string encoding (HTML-safe)
RECURSIVE jsonMarshalString(_)
jsonMarshalString(s) ==
    IF s = <<>> THEN <<>>
    ELSE (CASE Head(s) = "\"" -> <<"\\", "\"">>
            [] Head(s) = "\\" -> <<"\\", "\\">>
            [] Head(s) = "\n" -> <<"\\", "n">>
            [] Head(s) = "\t" -> <<"\\", "t">>
            [] Head(s) = "\r" -> <<"\\", "r">>
            [] Head(s) = "<" -> <<"\\", "u", "0", "0", "3", "c">>
            [] Head(s) = ">" -> <<"\\", "u", "0", "0", "3", "e">>
            [] Head(s) = "&" -> <<"\\", "u", "0", "0", "2", "6">>
            [] OTHER -> <<Head(s)>>) \o jsonMarshalString(Tail(s))

\* encoding/json's Marshal of a Go value: map keys sorted
RECURSIVE jsonMarshal(_)
jsonMarshal(val) ==
    LET RECURSIVE members(_, _)
        members(m, ks) ==
            IF ks = <<>> THEN <<>>
            ELSE <<"\"">> \o jsonMarshalString(Head(ks)) \o <<"\"", ":">> \o jsonMarshal(m[Head(ks)])
                 \o (IF Len(ks) > 1 THEN <<",">> ELSE <<>>) \o members(m, Tail(ks))
        RECURSIVE elements(_)
        elements(es) ==
            IF es = <<>> THEN <<>>
            ELSE jsonMarshal(Head(es)) \o (IF Len(es) > 1 THEN <<",">> ELSE <<>>) \o elements(Tail(es))
    IN CASE val.t = "str" -> <<"\"">> \o jsonMarshalString(val.v) \o <<"\"">>
         [] val.t = "int" -> IntStr(val.v)
         [] val.t = "float" -> FormatFloatShortest(val.m, val.d)
         [] val.t = "bool" -> BoolStr(val.v)
         [] val.t = "arr" -> <<"[">> \o elements(val.v) \o <<"]">>
         [] val.t = "map" -> <<"{">> \o members(val.v, SortStrings(DOMAIN val.v)) \o <<"}">>
         [] val.t = "jnum" -> val.v
         [] OTHER -> sNull

\* part_008:1156-1289: the text customJSONMarshal writes for the value of a top-level key
customJSONValue(value) ==
    LET scalar(v) ==
            CASE v.t = "str" -> <<"\"">> \o customEscape(v.v) \o <<"\"">>
              [] v.t = "int" -> IntStr(v.v)
              [] v.t = "float" -> floatText(v)
              [] v.t = "bool" -> BoolStr(v.v)
              [] OTHER -> jsonMarshal(v)
        RECURSIVE items(_)
        items(es) ==
            IF es = <<>> THEN <<>>
            ELSE scalar(Head(es)) \o (IF Len(es) > 1 THEN <<",">> ELSE <<>>) \o items(Tail(es))
        RECURSIVE marshalled(_)
        marshalled(es) ==
            IF es = <<>> THEN <<>>
            ELSE jsonMarshal(Head(es)) \o (IF Len(es) > 1 THEN <<",">> ELSE <<>>) \o marshalled(Tail(es))
        nestedValue(v) ==
            CASE v.t \in {"str", "int", "float", "bool"} -> scalar(v)
              [] v.t = "arr" -> <<"[">> \o marshalled(v.v) \o <<"]">>
              [] OTHER -> jsonMarshal(v)
        RECURSIVE nested(_, _)
        nested(m, ks) ==
            IF ks = <<>> THEN <<>>
            ELSE <<"\"">> \o Head(ks) \o <<"\"", ":">> \o nestedValue(m[Head(ks)])
                 \o (IF Len(ks) > 1 THEN <<",">> ELSE <<>>) \o nested(m, Tail(ks))
    IN CASE value.t \in {"str", "int", "float", "bool"} -> scalar(value)
         [] value.t = "arr" -> <<"[">> \o items(value.v) \o <<"]">>
         [] value.t = "map" -> <<"{">> \o nested(value.v, SortStrings(DOMAIN value.v)) \o <<"}">>
         [] value.t = "nil" -> sNull
         [] OTHER -> jsonMarshal(value)

\* part_008:1125-1294: the texts customJSONMarshal may return for a test case, given
\* the key order held by the package (an empty order is replaced by the map's own)
customJSONMarshal(m, keyOrder) ==
    LET RECURSIVE fields(_)
        fields(ks) ==
            IF ks = <<>> THEN <<>>
            ELSE <<"\"">> \o Head(ks) \o <<"\"", ":">> \o customJSONValue(m[Head(ks)])
                 \o (IF Len(ks) > 1 THEN <<",">> ELSE <<>>) \o fields(Tail(ks))
        orders == IF Len(keyOrder) = 0 THEN Perms(DOMAIN m) ELSE {keyOrder}
    IN {<<"{">> \o fields(KeysIn(m, keys)) \o <<"}">> : keys \in orders}

\* part_008:1114-1121
escapeXMLValue(value) ==
    LET a == ReplaceAll(value, "&", <<"&", "a", "m", "p", ";">>)
        b == ReplaceAll(a, "<", <<"&", "l", "t", ";">>)
        c == ReplaceAll(b, ">", <<"&", "g", "t", ";">>)
        d == ReplaceAll(c, "\"", <<"&", "q", "u", "o", "t", ";">>)
    IN ReplaceAll(d, "'", <<"&", "a", "p", "o", "s", ";">>)

XTag(k, body) == <<"<">> \o k \o <<">">> \o body \o <<"<", "/">> \o k \o <<">">>
XEmptyTag(k) == <<"<">> \o k \o <<" ", "/", ">">>

\* part_008:998-1109: the texts buildXMLContent may return; keyOrder is the order used
\* at the root level (empty: the map's own), nested maps come in the map's own order
RECURSIVE buildXMLContent(_, _)
buildXMLContent(m, keyOrder) ==
    LET nestedTag(cleanKey, v) ==
            {IF TrimSpace(n) = <<>> THEN XEmptyTag(cleanKey) ELSE XTag(cleanKey, n) :
                n \in buildXMLContent(v.v, <<>>)}
        element(cleanKey, v) ==
            CASE v.t = "nil" -> {XEmptyTag(cleanKey)}
              [] v.t = "str" -> {XTag(cleanKey, escapeXMLValue(v.v))}
              [] v.t = "int" -> {XTag(cleanKey, IntStr(v.v))}
              [] v.t = "float" -> {XTag(cleanKey, floatText(v))}
              [] v.t = "bool" -> {XTag(cleanKey, BoolStr(v.v))}
              [] v.t = "map" -> nestedTag(cleanKey, v)
              [] OTHER -> {XTag(cleanKey, jsonMarshal(v))}
        field(key) ==
            LET cleanKey == ReplaceAll(ReplaceAll(key, " ", <<"_">>), "-", <<"_">>)
                value == m[key]
            IN IF value.t = "arr"
               THEN ConcatSets([i \in 1..Len(value.v) |-> element(cleanKey, value.v[i])])
               ELSE element(cleanKey, value)
        orders == IF Len(keyOrder) > 0 THEN {keyOrder} ELSE Perms(DOMAIN m)
    IN UNION {LET ks == KeysIn(m, keys)
              IN {(IF Len(ks) > 0 THEN <<" ">> ELSE <<>>) \o body :
                     body \in ConcatSets([i \in 1..Len(ks) |-> field(ks[i])])} : keys \in orders}

DefaultXMLDeclaration ==
    <<"<", "?", "x", "m", "l", " ", "v", "e", "r", "s", "i", "o", "n", "=", "\"", "1", ".", "0", "\"", " ",
      "e", "n", "c", "o", "d", "i", "n", "g", "=", "\"", "U", "T", "F", "-", "8", "\"", "?", ">">>

\* part_008:964-995: the texts convertMapToXML may return, st the package variables
convertMapToXML(m, st) ==
    LET prologue == IF st.hasDecl
                    THEN (IF st.decl # <<>> THEN st.decl ELSE DefaultXMLDeclaration) \o <<"\n">>
                    ELSE <<>>
        rootElement == IF st.root = <<>> THEN <<"r", "o", "o", "t">> ELSE st.root
    IN {prologue \o (IF TrimSpace(content) = <<>> THEN XEmptyTag(rootElement)
                     ELSE XTag(rootElement, content)) :
           content \in buildXMLContent(m, st.keyOrder)}

\* part_008:1298-1322: the row tables ConvertToJSONRows may return
ConvertToJSONRows(tcs, keyOrder) ==
    IF Len(tcs) = 0 THEN {<<>>}
    ELSE {<<<<<<"J", "S", "O", "N">>>>>> \o rows :
            rows \in SeqOfEach([i \in 1..Len(tcs) |-> {<<jsonStr>> : jsonStr \in customJSONMarshal(tcs[i], keyOrder)}])}

\* part_008:936-961
ConvertToXMLRows(tcs, st) ==
    IF Len(tcs) = 0 THEN {<<>>}
    ELSE {<<<<<<"X", "M", "L">>>>>> \o rows :
            rows \in SeqOfEach([i \in 1..Len(tcs) |-> {<<xmlData>> : xmlData \in convertMapToXML(tcs[i], st)}])}

(***************************************************************************)
(* Constraint configuration                                                *)
(* A pointer field of FieldConstraint is <<>> when nil and <<x>> when set. *)
(* Min and Max hold hundredths; a message is its kind and arguments.       *)
(***************************************************************************)
Nil == <<>>
Ptr(x) == <<x>>
IsSet(p) == Len(p) = 1

\* a *float64 bound of a configuration file, kept in hundredths
Hundredths(p) == IF IsSet(p) THEN Ptr(100 * p[1]) ELSE Nil

\* constraints.go:16-29: a constraint as a configuration file gives it, with whole
\* numbers for min and max and no format, datetime bounds or timezone (Description is
\* not modelled); Min and Max hold hundredths
FieldConstraint(type, min, max, precision, keepOriginal, minDate, maxDate) ==
    [Type |-> type, Min |-> Hundredths(min), Max |-> Hundredths(max), Precision |-> precision,
     KeepOriginal |-> keepOriginal,
     MinDate |-> minDate, MaxDate |-> maxDate,
     Format |-> <<>>, MinDatetime |-> <<>>, MaxDatetime |-> <<>>, Timezone |-> <<>>]

\* constraints.go:32-37
BuiltinData(firstNames, lastNames, addresses, emailDomains) ==
    [FirstNames |-> firstNames, LastNames |-> lastNames, Addresses |-> addresses,
     EmailDomains |-> emailDomains]

\* constraints.go:40-43
ConstraintConfig(constraints, builtinData) == [Constraints |-> constraints, BuiltinData |-> builtinData]

\* constraints.go:49-52
ValidationError(field, message) == [Field |-> field, Message |-> message]

validTypes ==
    {"date", "datetime", "chinese_name", "phone", "email", "chinese_address", "id_card", "integer",
     "float", "keep_original"}

DaysIn(y, m) ==
    IF m \in {4, 6, 9, 11} THEN 30
    ELSE IF m = 2 THEN (IF (y % 4 = 0 /\ y % 100 # 0) \/ y % 400 = 0 THEN 29 ELSE 28)
    ELSE 31

\* time.Parse("20060102", s): the day number YYYYMMDD of a valid date
ParseDate(s) ==
    LET y == DigitsVal(SubSeq(s, 1, 4))
        m == DigitsVal(SubSeq(s, 5, 6))
        d == DigitsVal(SubSeq(s, 7, 8))
    IN IF Len(s) = 8 /\ IsDigits(s) /\ m \in 1..12 /\ d \in 1..DaysIn(y, m)
       THEN [err |-> FALSE, v |-> DigitsVal(s)]
       ELSE [err |-> TRUE, v |-> 0]

\* constraints.go:143-190, for a constraint with no Format
validateDateConstraint(fieldName, constraint) ==
    LET minDate == ParseDate(constraint.MinDate)
        maxDate == ParseDate(constraint.MaxDate)
        minZero == constraint.MinDate = <<>> \/ minDate.err \/ minDate.v = 10101
    IN (IF constraint.MinDate # <<>> /\ minDate.err
        THEN <<ValidationError(fieldName, <<"min_date_format", constraint.MinDate>>)>> ELSE <<>>)
       \o (IF constraint.MaxDate = <<>> THEN <<>>
           ELSE IF maxDate.err
           THEN <<ValidationError(fieldName, <<"max_date_format", constraint.MaxDate>>)>>
           ELSE IF ~minZero /\ maxDate.v < minDate.v
           THEN <<ValidationError(fieldName, <<"max_date_before_min", constraint.MaxDate, constraint.MinDate>>)>>
           ELSE <<>>)


\* a validator of integer fields that accepts any pair of bounds
validateIntegerConstraintNoRange(fieldName, constraint) ==
    IF IsSet(constraint.Precision)
    THEN <<ValidationError(fieldName, <<"precision_on_integer">>)>> ELSE <<>>

\* constraints.go:256-278
validateIntegerConstraint(fieldName, constraint) ==
    (IF IsSet(constraint.Min) /\ IsSet(constraint.Max) /\ constraint.Max[1] < constraint.Min[1]
     THEN <<ValidationError(fieldName, <<"max_lt_min", constraint.Max[1], constraint.Min[1]>>)>>
     ELSE <<>>)
    \o (IF IsSet(constraint.Precision)
        THEN <<ValidationError(fieldName, <<"precision_on_integer">>)>> ELSE <<>>)

\* constraints.go:281-305
validateFloatConstraint(fieldName, constraint) ==
    (IF IsSet(constraint.Min) /\ IsSet(constraint.Max) /\ constraint.Max[1] < constraint.Min[1]
     THEN <<ValidationError(fieldName, <<"max_lt_min", constraint.Max[1], constraint.Min[1]>>)>>
     ELSE <<>>)
    \o (IF IsSet(constraint.Precision) /\ (constraint.Precision[1] < 0 \/ constraint.Precision[1] > 10)
        THEN <<ValidationError(fieldName, <<"precision_range", constraint.Precision[1]>>)>> ELSE <<>>)

\* constraints.go:101-140 (no configuration of the model holds a datetime constraint)
validateFieldConstraint(fieldName, constraint) ==
    (IF constraint.Type = "" THEN <<ValidationError(fieldName, <<"type_empty">>)>>
     ELSE IF constraint.Type \notin validTypes
     THEN <<ValidationError(fieldName, <<"type_invalid", constraint.Type>>)>>
     ELSE <<>>)
    \o (CASE constraint.Type = "date" -> validateDateConstraint(fieldName, constraint)
          [] constraint.Type = "integer" -> validateIntegerConstraint(fieldName, constraint)
          [] constraint.Type = "float" -> validateFloatConstraint(fieldName, constraint)
          [] OTHER -> <<>>)

fFirstNames == <<"b", "u", "i", "l", "t", "i", "n", "_", "d", "a", "t", "a", ".", "f", "i", "r", "s", "t", "_", "n", "a", "m", "e", "s">>
fLastNames == <<"b", "u", "i", "l", "t", "i", "n", "_", "d", "a", "t", "a", ".", "l", "a", "s", "t", "_", "n", "a", "m", "e", "s">>
fAddresses == <<"b", "u", "i", "l", "t", "i", "n", "_", "d", "a", "t", "a", ".", "a", "d", "d", "r", "e", "s", "s", "e", "s">>
fEmailDomains == <<"b", "u", "i", "l", "t", "i", "n", "_", "d", "a", "t", "a", ".", "e", "m", "a", "i", "l", "_", "d", "o", "m", "a", "i", "n", "s">>

\* constraints.go:308-385
validateBuiltinData(bd) ==
    LET RECURSIVE entries(_, _, _, _)
        entries(field, list, i, dotted) ==
            IF i > Len(list) THEN <<>>
            ELSE (IF TrimSpace(list[i]) = <<>> THEN <<ValidationError(field, <<"entry_blank", i>>)>>
                  ELSE IF dotted /\ ~Contains(list[i], <<".">>)
                  THEN <<ValidationError(field, <<"domain_invalid", i, list[i]>>)>>
                  ELSE <<>>) \o entries(field, list, i + 1, dotted)
        check(field, list, dotted) ==
            IF Len(list) = 0 THEN <<ValidationError(field, <<"list_empty">>)>>
            ELSE entries(field, list, 1, dotted)
    IN check(fFirstNames, bd.FirstNames, FALSE) \o check(fLastNames, bd.LastNames, FALSE)
       \o check(fAddresses, bd.Addresses, FALSE) \o check(fEmailDomains, bd.EmailDomains, TRUE)

RECURSIVE FlattenSeq(_)
FlattenSeq(ss) == IF ss = <<>> THEN <<>> ELSE Head(ss) \o FlattenSeq(Tail(ss))


\* a validator that returns at the first field or list with a violation
ValidateConstraintConfigFailFast(config) ==
    {LET perField == [i \in 1..Len(order) |-> validateFieldConstraint(order[i], config.Constraints[order[i]])]
         failing == {i \in 1..Len(order) : perField[i] # <<>>}
     IN  IF failing # {}
         THEN perField[CHOOSE i \in failing : \A j \in failing : i <= j]
         ELSE validateBuiltinData(config.BuiltinData) : order \in Perms(DOMAIN config.Constraints)}

\* constraints.go:79-98: the error lists ValidateConstraintConfig may return (the
\* fields are visited in the map's order); <<>> is the nil error
ValidateConstraintConfig(config) ==
    {FlattenSeq([i \in 1..Len(order) |-> validateFieldConstraint(order[i], config.Constraints[order[i]])])
        \o validateBuiltinData(config.BuiltinData) : order \in Perms(DOMAIN config.Constraints)}

NoConstraintConfig == [isNil |-> TRUE]
SomeConstraintConfig(c) == [isNil |-> FALSE, Constraints |-> c.Constraints, BuiltinData |-> c.BuiltinData]

LastIndexOf(s, c) ==
    IF \E i \in 1..Len(s) : s[i] = c THEN CHOOSE i \in 1..Len(s) : s[i] = c /\ \A j \in (i + 1)..Len(s) : s[j] # c
    ELSE 0

\* constraints.go:445-477: the constraint found for a field name, <<>> when none
FindFieldConstraint(global, fieldName) ==
    LET lowerFieldName == ToLower(fieldName)
        simpleFieldName == Drop(fieldName, LastIndexOf(fieldName, "."))
        lowerSimpleFieldName == ToLower(simpleFieldName)
        has(k) == k \in DOMAIN global.Constraints
    IN IF global.isNil THEN Nil
       ELSE IF has(fieldName) THEN Ptr(global.Constraints[fieldName])
       ELSE IF has(lowerFieldName) THEN Ptr(global.Constraints[lowerFieldName])
       ELSE IF Contains(fieldName, <<".">>) /\ has(simpleFieldName) THEN Ptr(global.Constraints[simpleFieldName])
       ELSE IF Contains(fieldName, <<".">>) /\ has(lowerSimpleFieldName)
       THEN Ptr(global.Constraints[lowerSimpleFieldName])
       ELSE Nil

(***************************************************************************)
(* Random draws.  Every draw of one generated value follows one level      *)
(* r \in 0..RngSteps of the generator: level 0 is the least outcome of a   *)
(* draw, level RngSteps the greatest.                                      *)
(***************************************************************************)
Levels == 0..RngSteps

\* rand.Intn(n), rand.Int63n(n) for n > 0
Intn(n, r) == IF n - 1 <= 1000 THEN (r * (n - 1)) \div RngSteps ELSE ((n - 1) \div RngSteps) * r

\* rand.Float64() < 0.5
BelowHalf(r) == 2 * r < RngSteps

\* int64(x / y) and math.Round(x / y) for y > 0
TruncDiv(x, y) == IF x >= 0 THEN x \div y ELSE -((-x) \div y)
RoundDiv(x, y) == IF x >= 0 THEN (2 * x + y) \div (2 * y) ELSE -((2 * (-x) + y) \div (2 * y))

charset ==
    <<"a", "b", "c", "d", "e", "f", "g", "h", "i", "j", "k", "l", "m", "n", "o", "p", "q", "r", "s", "t",
      "u", "v", "w", "x", "y", "z", "A", "B", "C", "D", "E", "F", "G", "H", "I", "J", "K", "L", "M", "N",
      "O", "P", "Q", "R", "S", "T", "U", "V", "W", "X", "Y", "Z", "0", "1", "2", "3", "4", "5", "6", "7",
      "8", "9">>

RemoveAt(s, i) == SubSeq(s, 1, i - 1) \o SubSeq(s, i + 1, Len(s))
InsertAt(s, i, c) == SubSeq(s, 1, i - 1) \o <<c>> \o SubSeq(s, i, Len(s))
Swap(s, i, j) == [s EXCEPT ![i] = s[j], ![j] = s[i]]

\* Runes outside ASCII are written by their code point; these take three bytes in
\* UTF-8 (U+0800..U+FFFF).
WideRunes == {"U+5F20", "U+4E09"}

\* utf8.RuneLen
RuneLen(c) == IF c \in WideRunes THEN 3 ELSE 1

\* len(s) of a Go string: its length in bytes
RECURSIVE ByteLen(_)
ByteLen(s) == IF Len(s) = 0 THEN 0 ELSE RuneLen(Head(s)) + ByteLen(Tail(s))

\* part_008:859-933: the length is taken in bytes, the edits are made on runes
randomizeString(s, r) ==
    LET originalLen == ByteLen(s)
        minLen0 == (originalLen * 9) \div 10
        minLen == IF minLen0 < 1 THEN 1 ELSE minLen0
        maxLen0 == (originalLen * 11) \div 10
        maxLen == IF maxLen0 < minLen THEN minLen ELSE maxLen0
        newLen == minLen + Intn(maxLen - minLen + 1, r)
        newChar == charset[Intn(Len(charset), r) + 1]
        RECURSIVE grow(_, _)
        grow(runes, k) == IF k = 0 THEN runes
                          ELSE grow(InsertAt(runes, Intn(Len(runes) + 1, r) + 1, newChar), k - 1)
        RECURSIVE shrink(_, _)
        shrink(runes, k) == IF k = 0 THEN runes
                            ELSE IF Len(runes) > 1 THEN shrink(RemoveAt(runes, Intn(Len(runes), r) + 1), k - 1)
                            ELSE shrink(runes, k - 1)
        resized == IF newLen > originalLen THEN grow(s, newLen - originalLen)
                   ELSE shrink(s, originalLen - newLen)
        changeCount0 == Len(resized) \div 2
        changeCount == IF changeCount0 = 0 /\ Len(resized) > 0 THEN 1 ELSE changeCount0
        RECURSIVE shuffle(_, _)
        shuffle(positions, i) == IF i <= 1 THEN positions
                                 ELSE shuffle(Swap(positions, i, Intn(i, r) + 1), i - 1)
        positions == shuffle([i \in 1..Len(resized) |-> i], Len(resized))
        changed == {positions[i] : i \in 1..changeCount}
    IN IF originalLen = 0 THEN <<"a">>
       ELSE SubSeq([i \in 1..Len(resized) |-> IF i \in changed THEN newChar ELSE resized[i]],
                   1, Len(resized))

Panic == [t |-> "panic"]
IsPanic(v) == v.t = "panic"

RECURSIVE SplitBy(_, _)
SplitBy(s, c) ==
    LET i == IndexFrom(s, 1, <<c>>)
    IN IF i = 0 THEN <<s>> ELSE <<Take(s, i - 1)>> \o SplitBy(Drop(s, i), c)

RECURSIVE JoinBy(_, _)
JoinBy(parts, c) ==
    IF Len(parts) = 0 THEN <<>>
    ELSE IF Len(parts) = 1 THEN parts[1]
    ELSE parts[1] \o <<c>> \o JoinBy(Tail(parts), c)

\* strconv.FormatFloat(v, 'f', d, 64) of the float m / 10^d
FormatFloatFixed(m, d) ==
    IF d = 0 THEN IntStr(m)
    ELSE LET digs == NatStr(Abs(m))
             padded == Zeros(d + 1 - Len(digs)) \o digs
         IN (IF m < 0 THEN <<"-">> ELSE <<>>) \o Take(padded, Len(padded) - d) \o <<".">>
            \o Drop(padded, Len(padded) - d)

\* the number of decimals a numeric string carries (part_008:818-821)
decimalPlacesOf(v) ==
    LET dotIndex == IndexFrom(v, 1, <<".">>)
    IN IF dotIndex = 0 THEN 0 ELSE Len(v) - dotIndex

\* value + (rand.Float64()*2-1) * value * 0.5 rounded to d decimals, all in units of 10^-d
variedFloat(m, r) == RoundDiv(m * 2 * RngSteps + (2 * r - RngSteps) * m, 2 * RngSteps)

\* x / y rounded to the nearest whole number, a tie going to the even one
RoundHalfEvenDiv(x, y) ==
    IF 2 * (x % y) < y THEN x \div y
    ELSE IF 2 * (x % y) > y THEN x \div y + 1
    ELSE IF (x \div y) % 2 = 0 THEN x \div y ELSE x \div y + 1

\* strconv.FormatFloat(value + (rand.Float64()*2-1) * value * 0.5, 'f', d, 64) in units of
\* 10^-d: the nearest decimal, a tie (the values of the model are binary fractions,
\* held exactly) going to the even digit
variedFloatText(m, r) == RoundHalfEvenDiv(m * 2 * RngSteps + (2 * r - RngSteps) * m, 2 * RngSteps)

\* part_008:728-855 with variationRate 0.5: the value returned, or Panic when
\* rand.Int63n is called with a non-positive argument.  A float value of the
\* examples always carries decimals.
RECURSIVE generateVariation(_, _)
generateVariation(value, r) ==
    LET intVariation(intVal, atLeastOne) ==
            LET v0 == TruncDiv(intVal, 2)
                variation == IF atLeastOne /\ v0 = 0 THEN 1 ELSE v0
            IN IF 2 * variation + 1 <= 0 THEN Panic
               ELSE [t |-> "ok", v |-> intVal + Intn(2 * variation + 1, r) - variation]
        ofString(v) ==
            IF Contains(v, <<",">>)
            THEN LET parts == SplitBy(v, ",")
                 IN GoStr(JoinBy([i \in 1..Len(parts) |->
                                    IF BelowHalf(r) THEN randomizeString(parts[i], r) ELSE parts[i]], ","))
            ELSE IF IsIntLit(v)
            THEN LET n == intVariation(IntLitVal(v), FALSE)
                 IN IF IsPanic(n) THEN Panic ELSE GoStr(IntStr(n.v))
            ELSE IF IsFloatLit(v)
            THEN LET f == FloatLitVal(v)
                     d == decimalPlacesOf(v)
                 IN GoStr(FormatFloatFixed(variedFloatText(f.m * Pow10(d - f.d), r), d))
            ELSE GoStr(randomizeString(v, r))
        items == [i \in 1..Len(value.v) |-> generateVariation(value.v[i], r)]
        props == [k \in DOMAIN value.v |-> generateVariation(value.v[k], r)]
    IN CASE value.t = "int" ->
              LET n == intVariation(value.v, TRUE)
              IN IF IsPanic(n) THEN Panic ELSE GoInt(value.w, n.v)
         [] value.t = "float" -> NormFloat(variedFloat(value.m, r), value.d)
         [] value.t = "str" -> ofString(value.v)
         [] value.t = "bool" -> IF BelowHalf(r) THEN GoBool(~value.v) ELSE value
         [] value.t = "arr" -> IF \E i \in 1..Len(items) : IsPanic(items[i]) THEN Panic ELSE GoArr(items)
         [] value.t = "map" -> IF \E k \in DOMAIN props : IsPanic(props[k]) THEN Panic ELSE GoMap(props)
         [] OTHER -> value

(***************************************************************************)
(* Dates and times.  A time.Time is the pair of its UTC day, counted from  *)
(* 1970-01-01, and the millisecond of that day; a time.Duration is a pair  *)
(* of days and milliseconds as well.                                       *)
(***************************************************************************)
MsPerDay == 86400000

\* time.Date(y, m, d, 0, 0, 0, 0, time.UTC) as a day number
DaysFromCivil(y, m, d) ==
    LET y1 == IF m <= 2 THEN y - 1 ELSE y
        era == y1 \div 400
        yoe == y1 - era * 400
        doy == (153 * (IF m > 2 THEN m - 3 ELSE m + 9) + 2) \div 5 + d - 1
        doe == yoe * 365 + yoe \div 4 - yoe \div 100 + doy
    IN era * 146097 + doe - 719468

\* year, month and day of a day number (the steps of the civil calendar, each
\* taking the results of the steps before it)
CivilOfMonth(era, yoe, doy, mp) ==
    [y |-> yoe + era * 400 + (IF mp < 10 THEN 0 ELSE 1),
     m |-> IF mp < 10 THEN mp + 3 ELSE mp - 9,
     d |-> doy - (153 * mp + 2) \div 5 + 1]
CivilOfDayOfYear(era, yoe, doy) == CivilOfMonth(era, yoe, doy, (5 * doy + 2) \div 153)
CivilOfYearOfEra(era, doe, yoe) ==
    CivilOfDayOfYear(era, yoe, doe - (365 * yoe + yoe \div 4 - yoe \div 100))
CivilOfDayOfEra(era, doe) ==
    CivilOfYearOfEra(era, doe, (doe - doe \div 1460 + doe \div 36524 - doe \div 146096) \div 365)
CivilOfEra(z1, era) == CivilOfDayOfEra(era, z1 - era * 146097)
CivilFromDays(z) == CivilOfEra(z + 719468, (z + 719468) \div 146097)

Time(day, ms) == [day |-> day, ms |-> ms]

\* the zero time.Time: January 1 of year 1, 00:00:00 UTC
ZeroTime == Time(DaysFromCivil(1, 1, 1), 0)

\* t.Before(u), t.Equal(u)
Before(t, u) == t.day < u.day \/ (t.day = u.day /\ t.ms < u.ms)

\* t.Add of a number of milliseconds between -MsPerDay and MsPerDay
AddMs(t, ms) ==
    IF t.ms + ms < 0 THEN Time(t.day - 1, t.ms + ms + MsPerDay)
    ELSE IF t.ms + ms >= MsPerDay THEN Time(t.day + 1, t.ms + ms - MsPerDay)
    ELSE Time(t.day, t.ms + ms)

PadDigits(digs, width) == Zeros(width - Len(digs)) \o digs
Pad(n, width) == PadDigits(NatStr(n), width)

\* time.Parse("20060102", s): the zero time comes with every error
TimeOfDate(p) ==
    IF p.err THEN [err |-> TRUE, t |-> ZeroTime]
    ELSE [err |-> FALSE,
          t |-> Time(DaysFromCivil(p.v \div 10000, (p.v \div 100) % 100, p.v % 100), 0)]
ParseDateTime(s) == TimeOfDate(ParseDate(s))

\* t.Format(layout) for a layout made of the elements 2006, 01 and 02 and of
\* characters that begin no element of a layout; c is the civil date of t
RECURSIVE FormatCivil(_, _)
FormatCivil(layout, c) ==
    IF layout = <<>> THEN <<>>
    ELSE IF HasPrefix(layout, <<"2", "0", "0", "6">>) THEN Pad(c.y, 4) \o FormatCivil(Drop(layout, 4), c)
    ELSE IF HasPrefix(layout, <<"0", "1">>) THEN Pad(c.m, 2) \o FormatCivil(Drop(layout, 2), c)
    ELSE IF HasPrefix(layout, <<"0", "2">>) THEN Pad(c.d, 2) \o FormatCivil(Drop(layout, 2), c)
    ELSE <<Head(layout)>> \o FormatCivil(Tail(layout), c)
FormatDate(layout, t) == FormatCivil(layout, CivilFromDays(t.day))

\* constraints.go:706-733: the offset in minutes of a text such as +08:00
OffsetOf(sign, hours, minutes) ==
    IF hours < 0 \/ hours > 23 \/ minutes < 0 \/ minutes > 59 THEN [err |-> TRUE, v |-> 0]
    ELSE [err |-> FALSE, v |-> sign * (hours * 60 + minutes)]
parseTimezoneOffset(offset) ==
    IF Len(offset) # 6 \/ offset[4] # ":" THEN [err |-> TRUE, v |-> 0]
    ELSE IF offset[1] \notin {"-", "+"} THEN [err |-> TRUE, v |-> 0]
    ELSE IF ~IsIntLit(SubSeq(offset, 2, 3)) \/ ~IsIntLit(SubSeq(offset, 5, 6)) THEN [err |-> TRUE, v |-> 0]
    ELSE OffsetOf(IF offset[1] = "-" THEN -1 ELSE 1,
                  IntLitVal(SubSeq(offset, 2, 3)), IntLitVal(SubSeq(offset, 5, 6)))

\* time.Parse with the layout 2006-01-02T15:04:05.000Z07:00 and, when that fails,
\* with time.RFC3339 (which reads a fraction of any length): the instant read
IsNumAt(s, i, n) == i + n - 1 <= Len(s) /\ IsDigits(SubSeq(s, i, i + n - 1))

\* the date and time part YYYY-MM-DDTHH:MM:SS is in place
ShapedRFC3339(s) ==
    /\ Len(s) >= 20
    /\ IsNumAt(s, 1, 4) /\ s[5] = "-" /\ IsNumAt(s, 6, 2) /\ s[8] = "-" /\ IsNumAt(s, 9, 2)
    /\ s[11] = "T" /\ IsNumAt(s, 12, 2) /\ s[14] = ":" /\ IsNumAt(s, 15, 2) /\ s[17] = ":"
    /\ IsNumAt(s, 18, 2)

\* the index of the last digit of the fraction of a second, 19 when there is none
FractionEnd(s) ==
    IF Len(s) >= 21 /\ s[20] = "." /\ s[21] \in Digits
    THEN CHOOSE j \in 21..Len(s) :
            /\ \A k \in 21..j : s[k] \in Digits
            /\ (j = Len(s) \/ s[j + 1] \notin Digits)
    ELSE 19

ZoneOffset(zone) ==
    IF zone = <<"Z">> THEN [err |-> FALSE, v |-> 0]
    ELSE IF Len(zone) = 6 /\ IsNumAt(zone, 2, 2) /\ IsNumAt(zone, 5, 2) THEN parseTimezoneOffset(zone)
    ELSE [err |-> TRUE, v |-> 0]

InstantOf(y, mo, d, h, mi, sec, millis, off) ==
    IF mo \notin 1..12 \/ d \notin 1..DaysIn(y, mo) \/ h > 23 \/ mi > 59 \/ sec > 59 \/ off.err
    THEN [err |-> TRUE, t |-> ZeroTime]
    ELSE [err |-> FALSE,
          t |-> AddMs(Time(DaysFromCivil(y, mo, d), ((h * 60 + mi) * 60 + sec) * 1000 + millis),
                      -(off.v * 60000))]

ReadRFC3339(s, fracEnd) ==
    InstantOf(DigitsVal(SubSeq(s, 1, 4)), DigitsVal(SubSeq(s, 6, 7)), DigitsVal(SubSeq(s, 9, 10)),
              DigitsVal(SubSeq(s, 12, 13)), DigitsVal(SubSeq(s, 15, 16)), DigitsVal(SubSeq(s, 18, 19)),
              IF fracEnd = 19 THEN 0 ELSE DigitsVal(Take(SubSeq(s, 21, fracEnd) \o <<"0", "0">>, 3)),
              ZoneOffset(Drop(s, fracEnd)))

ParseRFC3339(s) ==
    IF ~ShapedRFC3339(s) THEN [err |-> TRUE, t |-> ZeroTime] ELSE ReadRFC3339(s, FractionEnd(s))

\* t.In(zone).Format("2006-01-02T15:04:05.000Z07:00"), zone given by its offset in minutes
FormatLocal(c, ms, offset) ==
    Pad(c.y, 4) \o <<"-">> \o Pad(c.m, 2) \o <<"-">> \o Pad(c.d, 2) \o <<"T">>
    \o Pad(ms \div 3600000, 2) \o <<":">> \o Pad((ms \div 60000) % 60, 2) \o <<":">>
    \o Pad((ms \div 1000) % 60, 2) \o <<".">> \o Pad(ms % 1000, 3)
    \o (IF offset = 0 THEN <<"Z">>
        ELSE <<IF offset < 0 THEN "-" ELSE "+">> \o Pad(Abs(offset) \div 60, 2) \o <<":">>
             \o Pad(Abs(offset) % 60, 2))
FormatInZone(local, offset) == FormatLocal(CivilFromDays(local.day), local.ms, offset)
FormatRFC3339(t, offset) == FormatInZone(AddMs(t, offset * 60000), offset)

\* constraints.go:819-842
generateIntegerValue(constraint, r) ==
    LET min == IF IsSet(constraint.Min) THEN TruncDiv(constraint.Min[1], 100) ELSE 1
        max == IF IsSet(constraint.Max) THEN TruncDiv(constraint.Max[1], 100) ELSE 100
    IN IF max < min THEN GoInt("int", min)
       ELSE IF max = min THEN GoInt("int", min)
       ELSE GoInt("int", min + Intn(max - min + 1, r))

\* constraints.go:877-886: float64(int(value*multiplier+0.5)) / multiplier for
\* value = x / y, in units of 10^-precision
applyFloatPrecision(x, y, precision) ==
    NormFloat(TruncDiv(2 * x * Pow10(precision) + y, 2 * y), precision)

\* constraints.go:845-874 (defaults 0.01, 999.99 and 2)
generateFloatValue(constraint, r) ==
    LET min == IF IsSet(constraint.Min) THEN constraint.Min[1] ELSE 1
        max == IF IsSet(constraint.Max) THEN constraint.Max[1] ELSE 99999
        precision == IF IsSet(constraint.Precision) THEN constraint.Precision[1] ELSE 2
    IN IF max < min THEN applyFloatPrecision(min, 100, precision)
       ELSE IF max = min THEN applyFloatPrecision(min, 100, precision)
       ELSE applyFloatPrecision(min * RngSteps + r * (max - min), 100 * RngSteps, precision)

\* time.Date(2020, 1, 1, ...) and time.Date(2030, 12, 31, ...), the defaults of the date generators
DefaultMinDate == Time(DaysFromCivil(2020, 1, 1), 0)
DefaultMaxDate == Time(DaysFromCivil(2030, 12, 31), 0)

\* the greatest time.Duration, 2^63 - 1 nanoseconds, in whole days and in hundredths of a day
MaxDurationDays == 106751
MaxDurationCentiDays == 10675199

\* constraints.go:527-529: a bound that is the zero time gives way to the default
DateOrDefault(parsed, default) == IF parsed.t = ZeroTime THEN default ELSE parsed.t

\* constraints.go:538-544.  A draw rand.Int63n(duration) at level r falls on the day
\* ceil(r * days / RngSteps) - 1 after minDate (day 0 at level 0); maxDate.Sub(minDate)
\* is the greatest duration when the dates lie further apart
RandomDay(days, r) ==
    IF r = 0 THEN 0
    ELSE IF days > MaxDurationDays THEN (r * MaxDurationCentiDays) \div (100 * RngSteps)
    ELSE (r * days + RngSteps - 1) \div RngSteps - 1

DateBetween(format, minDate, maxDate, r) ==
    IF Before(maxDate, minDate) \/ maxDate = minDate THEN GoStr(FormatDate(format, minDate))
    ELSE GoStr(FormatDate(format, Time(minDate.day + RandomDay(maxDate.day - minDate.day, r), 0)))

\* constraints.go:517-545
generateDateValue(constraint, r) ==
    DateBetween(IF constraint.Format = <<>> THEN <<"2", "0", "0", "6", "0", "1", "0", "2">>
                ELSE constraint.Format,
                DateOrDefault(ParseDateTime(constraint.MinDate), DefaultMinDate),
                DateOrDefault(ParseDateTime(constraint.MaxDate), DefaultMaxDate), r)

\* constraints.go:575-596 and 609-630: the offset in minutes of the target zone
\* (no input of the model names a zone of the tz database)
OffsetOrUTC(parsed) == IF parsed.err THEN 0 ELSE parsed.v
targetTimezone(timezone) ==
    IF timezone = <<>> \/ timezone = <<"U", "T", "C">> THEN 0
    ELSE IF timezone[1] \in {"+", "-"} THEN OffsetOrUTC(parseTimezoneOffset(timezone))
    ELSE 0

\* constraints.go:552-572: a bound that is absent or unreadable gives way to the default
DatetimeOrDefault(text, parsed, default) == IF text # <<>> /\ ~parsed.err THEN parsed.t ELSE default

\* constraints.go:603-606.  A draw rand.Int63n(diff + 1) at level r is the part
\* r / RngSteps of diff, given in days and milliseconds
AfterPart(minDatetime, addDays, addMs) ==
    Time(minDatetime.day + addDays + addMs \div MsPerDay + (minDatetime.ms + (addMs % MsPerDay)) \div MsPerDay,
         (minDatetime.ms + (addMs % MsPerDay)) % MsPerDay)
RandomDatetime(minDatetime, diffDays, diffMs, r) ==
    AfterPart(minDatetime, (r * diffDays) \div RngSteps,
              (((r * diffDays) % RngSteps) * MsPerDay + r * diffMs) \div RngSteps)

DatetimeBetween(minDatetime, maxDatetime, zone, r) ==
    IF Before(maxDatetime, minDatetime) \/ maxDatetime = minDatetime
    THEN GoStr(FormatRFC3339(minDatetime, zone))
    ELSE GoStr(FormatRFC3339(
            RandomDatetime(minDatetime,
                           maxDatetime.day - minDatetime.day - (IF maxDatetime.ms < minDatetime.ms THEN 1 ELSE 0),
                           maxDatetime.ms - minDatetime.ms + (IF maxDatetime.ms < minDatetime.ms THEN MsPerDay ELSE 0),
                           r), zone))

\* constraints.go:548-637, for bounds given to the millisecond
generateDatetimeValue(constraint, r) ==
    DatetimeBetween(DatetimeOrDefault(constraint.MinDatetime, ParseRFC3339(constraint.MinDatetime), DefaultMinDate),
                    DatetimeOrDefault(constraint.MaxDatetime, ParseRFC3339(constraint.MaxDatetime),
                                      Time(DefaultMaxDate.day, MsPerDay - 1)),
                    targetTimezone(constraint.Timezone), r)

\* constraints.go:753
PhonePrefixes == <<<<"1", "3">>, <<"1", "4">>, <<"1", "5">>, <<"1", "6">>, <<"1", "7">>, <<"1", "8">>, <<"1", "9">>>>

\* a phone generator that writes the nine-digit number without its leading zeros
generatePhoneNumberUnpadded(r) == GoStr(PhonePrefixes[Intn(Len(PhonePrefixes), r) + 1] \o NatStr(Intn(1000000000, r)))

\* constraints.go:752-760
generatePhoneNumber(r) == GoStr(PhonePrefixes[Intn(Len(PhonePrefixes), r) + 1] \o Pad(Intn(1000000000, r), 9))

\* a generator that reads the type before the keep_original flag
GenerateConstrainedValueTypeFirst(constraint, originalValue, r) ==
    IF ~IsSet(constraint) THEN originalValue
    ELSE CASE constraint[1].Type = "keep_original" -> originalValue
           [] constraint[1].Type = "integer" -> generateIntegerValue(constraint[1], r)
           [] constraint[1].Type = "float" -> generateFloatValue(constraint[1], r)
           [] OTHER -> originalValue

\* constraints.go:480-514, for the constraint types the model uses (not the
\* generators of names, addresses, e-mail addresses and identity numbers)
GenerateConstrainedValue(constraint, originalValue, r) ==
    IF ~IsSet(constraint) THEN originalValue
    ELSE IF IsSet(constraint[1].KeepOriginal) /\ constraint[1].KeepOriginal[1] THEN originalValue
    ELSE CASE constraint[1].Type = "keep_original" -> originalValue
           [] constraint[1].Type = "integer" -> generateIntegerValue(constraint[1], r)
           [] constraint[1].Type = "float" -> generateFloatValue(constraint[1], r)
           [] constraint[1].Type = "date" -> generateDateValue(constraint[1], r)
           [] constraint[1].Type = "datetime" -> generateDatetimeValue(constraint[1], r)
           [] constraint[1].Type = "phone" -> generatePhoneNumber(r)
           [] constraint[1].Type \notin validTypes -> originalValue

\* part_008:662-698: the type recorded for an original value
valueType(value) ==
    CASE value.t = "int" -> <<"int">>
      [] value.t = "float" -> IF value.d > 0 THEN <<"float", value.d>> ELSE <<"float">>
      [] value.t = "str" ->
            (IF Contains(value.v, <<",">>) THEN <<"array-string">>
             ELSE IF IsIntLit(value.v) THEN <<"int-string">>
             ELSE IF IsFloatLit(value.v) THEN <<"float-string", decimalPlacesOf(value.v)>>
             ELSE <<"string">>)
      [] value.t = "bool" -> <<"bool">>
      [] value.t = "arr" -> <<"array">>
      [] value.t = "map" -> <<"object">>
      [] OTHER -> <<"unknown">>

\* part_008:641-725: keys is the order the loop uses (originalKeyOrder or, when that
\* is empty, an order of the map's keys), rs the level of each test case's draws
GenerateTestCasesWithConstraints(m, count, withConstraints, keys, global, rs) ==
    LET field(key, r) ==
            IF withConstraints /\ IsSet(FindFieldConstraint(global, key))
            THEN GenerateConstrainedValue(FindFieldConstraint(global, key), MapGet(m, key), r)
            ELSE generateVariation(MapGet(m, key), r)
        tcs == [i \in 1..count |-> [key \in {keys[j] : j \in 1..Len(keys)} |-> field(key, rs[i])]]
    IN [panic |-> \E i \in 1..count : \E key \in DOMAIN tcs[i] : IsPanic(tcs[i][key]),
        testCases |-> tcs,
        keyOrder |-> keys,
        types |-> [key \in DOMAIN m |-> valueType(m[key])]]

(***************************************************************************)
(* Positive examples and configuration files of the model                  *)
(***************************************************************************)
JSONExamples ==
    {<<"{", "\"", "n", "a", "m", "e", "\"", ":", "\"", "a", "b", "\"", ",", "\"", "a", "g", "e", "\"", ":", "2", "5", "}">>,
     <<"{", "\"", "f", " ", "n", "\"", ":", "\"", "x", "\"", ",", "\"", "i", "d", "\"", ":", "7", "}">>,
     <<"{", "\"", "o", "\"", ":", "{", "\"", "b", "\"", ":", "1", ",", "\"", "a", "\"", ":", "\"", "x", "\"", "}", ",", "\"", "k", "\"", ":", "t", "r", "u", "e", "}">>,
     <<"{", "\"", "s", "\"", ":", "\"", "x", "\\", "n", "y", "\"", "}">>,
     <<"{", "\"", "n", "\"", ":", "-", "1", "0", ",", "\"", "p", "\"", ":", "2", ".", "5", "0", "}">>,
     <<"{", " ", "\"", "l", "\"", ":", " ", "[", "1", ",", " ", "{", "\"", "z", "\"", ":", "1", ",", "\"", "y", "\"", ":", "2", "}", "]", ",", " ", "\"", "e", "\"", ":", " ", "n", "u", "l", "l", " ", "}">>,
     <<"{", "}">>,
     <<"[", "1", "]">>,
     <<"{", "\"", "a", "\"", ":">>}

XMLExamples ==
    {<<"<", "u", "s", "e", "r", ">", "<", "n", "a", "m", "e", ">", "t", "e", "s", "t", "<", "/", "n", "a", "m", "e", ">", "<", "/", "u", "s", "e", "r", ">">>,
     <<"<", "?", "x", "m", "l", " ", "v", "e", "r", "s", "i", "o", "n", "=", "\"", "1", ".", "0", "\"", "?", ">", "<", "u", "s", "e", "r", ">", "<", "f", "i", "r", "s", "t", "-", "n", "a", "m", "e", ">", "x", "<", "/", "f", "i", "r", "s", "t", "-", "n", "a", "m", "e", ">", "<", "a", "g", "e", ">", "2", "5", "<", "/", "a", "g", "e", ">", "<", "/", "u", "s", "e", "r", ">">>,
     <<"<", "r", ">", "<", "o", ">", "<", "b", ">", "1", "<", "/", "b", ">", "<", "a", ">", "x", "<", "/", "a", ">", "<", "/", "o", ">", "<", "k", ">", "t", "r", "u", "e", "<", "/", "k", ">", "<", "/", "r", ">">>,
     <<"<", "?", "x", "m", "l", " ", "v", "e", "r", "s", "i", "o", "n", "=", "\"", "1", ".", "0", "\"", "?", ">", "<", "!", "-", "-", "c", "-", "-", ">", "<", "u", "s", "e", "r", ">", "<", "n", "a", "m", "e", ">", "t", "e", "s", "t", "<", "/", "n", "a", "m", "e", ">", "<", "/", "u", "s", "e", "r", ">">>,
     <<"<", "r", ">", "<", "v", ">", "a", "&", "l", "t", ";", "b", "<", "/", "v", ">", "<", "n", ">", "-", "1", "0", "<", "/", "n", ">", "<", "e", "/", ">", "<", "/", "r", ">">>,
     <<"<", "u", "s", "e", "r", ">", "<", "n", "a", "m", "e", ">", "t", "e", "s", "t", "<", "/", "u", "s", "e", "r", ">">>}

kName == <<"n", "a", "m", "e">>
kAge == <<"a", "g", "e">>
kP == <<"p">>
kO == <<"o">>
kD == <<"d">>
kId == <<"i", "d">>

NoText == <<>>
NoTestCase == [Num |-> 0, PositiveExample |-> NoText, Type |-> ""]
NoBuiltinData == BuiltinData(<<>>, <<>>, <<>>, <<>>)
SomeBuiltinData == BuiltinData(<<<<"L", "i">>>>, <<<<"N", "a">>>>, <<<<"R", "d">>>>, <<<<"q", "q", ".", "c", "o", "m">>>>)
NoConstraints == [k \in {} |-> 0]

\* config.go:19-30: the request section of a configuration (the fields a run reads)
RequestConfig(url, method, concurrent) == [URL |-> url, Method |-> method, Concurrent |-> concurrent]
NoRequest == RequestConfig(<<>>, <<>>, 0)

\* config.go:42-48: what LoadConfig reads from a file (exists: os.Stat finds it and
\* os.ReadFile reads it; parses: toml.Unmarshal accepts its text)
ConfigFile(name, exists, testCase, constraints, builtinData) ==
    [name |-> name, exists |-> exists, parses |-> TRUE, Request |-> NoRequest, TestCase |-> testCase,
     Constraints |-> constraints, BuiltinData |-> builtinData]

NoFile == [name |-> ""]
cfgPlain == ConfigFile("plain", TRUE, NoTestCase, NoConstraints, NoBuiltinData)
cfgMissing == ConfigFile("missing", FALSE, NoTestCase, NoConstraints, NoBuiltinData)
cfgBroken == [ConfigFile("broken", TRUE, NoTestCase, NoConstraints, NoBuiltinData) EXCEPT !.parses = FALSE]
cfgExample ==
    ConfigFile("example", TRUE, [Num |-> 1, PositiveExample |-> <<"{", "\"", "n", "a", "m", "e", "\"", ":", "\"", "a", "b", "\"", ",", "\"", "a", "g", "e", "\"", ":", "2", "5", "}">>, Type |-> "json"],
               NoConstraints, NoBuiltinData)
cfgKeep ==
    ConfigFile("keep", TRUE, NoTestCase,
               (kName :> FieldConstraint("keep_original", Ptr(1), Ptr(5), Nil, Nil, <<>>, <<>>))
               @@ (kAge :> FieldConstraint("integer", Ptr(18), Ptr(60), Nil, Ptr(TRUE), <<>>, <<>>))
               @@ (kO :> FieldConstraint("float", Nil, Nil, Ptr(1), Ptr(TRUE), <<>>, <<>>))
               @@ (kP :> FieldConstraint("date", Nil, Nil, Nil, Ptr(TRUE), <<"2", "0", "2", "0", "0", "1", "0", "1">>, <<"2", "0", "2", "0", "1", "2", "3", "1">>)),
               SomeBuiltinData)
cfgRange ==
    ConfigFile("range", TRUE, NoTestCase,
               (kAge :> FieldConstraint("integer", Ptr(18), Ptr(60), Nil, Nil, <<>>, <<>>))
               @@ (kP :> FieldConstraint("float", Ptr(1), Ptr(3), Ptr(1), Ptr(FALSE), <<>>, <<>>))
               @@ (kId :> FieldConstraint("integer", Ptr(5), Ptr(5), Nil, Nil, <<>>, <<>>)),
               SomeBuiltinData)
cfgInverted ==
    ConfigFile("inverted", TRUE, NoTestCase,
               (kAge :> FieldConstraint("integer", Ptr(60), Ptr(18), Nil, Nil, <<>>, <<>>))
               @@ (kName :> FieldConstraint("keep_original", Nil, Nil, Nil, Nil, <<>>, <<>>)),
               SomeBuiltinData)
cfgInvertedFloat ==
    ConfigFile("invertedFloat", TRUE, NoTestCase,
               (kP :> FieldConstraint("float", Ptr(3), Ptr(1), Ptr(2), Nil, <<>>, <<>>))
               @@ (kD :> FieldConstraint("date", Nil, Nil, Nil, Nil, <<"2", "0", "2", "0", "0", "1", "0", "2">>, <<"2", "0", "2", "0", "0", "1", "0", "1">>)),
               SomeBuiltinData)
cfgMulti ==
    ConfigFile("multi", TRUE, NoTestCase,
               (kAge :> FieldConstraint("integer", Ptr(60), Ptr(18), Ptr(2), Nil, <<>>, <<>>))
               @@ (kP :> FieldConstraint("float", Ptr(3), Ptr(1), Ptr(11), Nil, <<>>, <<>>))
               @@ (kName :> FieldConstraint("", Nil, Nil, Nil, Nil, <<>>, <<>>)),
               BuiltinData(<<>>, <<<<" ">>>>, <<<<"R", "d">>>>, <<<<"n", "o", "d", "o", "t">>>>))
cfgNoBuiltin ==
    ConfigFile("noBuiltin", TRUE, NoTestCase,
               (kAge :> FieldConstraint("integer", Ptr(18), Ptr(60), Nil, Nil, <<>>, <<>>)),
               NoBuiltinData)

cfgTypes ==
    ConfigFile("types", TRUE, NoTestCase,
               (<<"b">> :> FieldConstraint("integer", Ptr(5), Ptr(5), Nil, Nil, <<>>, <<>>))
               @@ (kName :> FieldConstraint("phone", Nil, Nil, Nil, Nil, <<>>, <<>>))
               @@ (kId :> FieldConstraint("date", Nil, Nil, Nil, Nil, <<"2", "0", "2", "0", "0", "1", "0", "1">>, <<"2", "0", "2", "0", "0", "1", "0", "1">>)),
               SomeBuiltinData)

ConfigFiles ==
    {cfgPlain, cfgMissing, cfgBroken, cfgExample, cfgKeep, cfgRange, cfgInverted, cfgInvertedFloat, cfgMulti,
     cfgNoBuiltin, cfgTypes}

DefaultNum == 10

\* configurations with a request section, given to runs that execute
cfgPost == [ConfigFile("post", TRUE, NoTestCase, NoConstraints, NoBuiltinData)
              EXCEPT !.Request = RequestConfig(<<"h", "/", "p">>, <<>>, 0)]
cfgGet == [ConfigFile("get", TRUE, NoTestCase, NoConstraints, NoBuiltinData)
              EXCEPT !.Request = RequestConfig(<<"h", "/", "p">>, <<"G", "e", "t">>, 2)]
cfgPut == [ConfigFile("put", TRUE, NoTestCase, NoConstraints, NoBuiltinData)
              EXCEPT !.Request = RequestConfig(<<"h", "/", "p">>, <<"p", "u", "t">>, -1)]
ExecConfigFiles == {cfgPost, cfgGet, cfgPut, cfgPlain, cfgMissing}

\* localGen.go:127-129: the file config.toml of the working directory, read when a
\* run that executes names no configuration
ConfigToml == {cfgPost, cfgMissing}

\* the positive examples of the runs that execute
ExecJSONExamples == {<<"{", "\"", "n", "a", "m", "e", "\"", ":", "\"", "a", "b", "\"", ",", "\"", "a", "g", "e", "\"", ":", "2", "5", "}">>, <<"{", "\"", "i", "d", "\"", ":", "7", "}">>}
ExecXMLExamples == {<<"<", "u", "s", "e", "r", ">", "<", "n", "a", "m", "e", ">", "t", "e", "s", "t", "<", "/", "n", "a", "m", "e", ">", "<", "/", "u", "s", "e", "r", ">">>}

\* the command lines of the model: [xml, json, num, config, exec]
Invocations ==
    [xml : {NoText}, json : JSONExamples, num : 0..MaxNum, config : {NoFile} \cup ConfigFiles, exec : {FALSE}]
    \cup [xml : XMLExamples, json : {NoText}, num : 0..MaxNum, config : {NoFile} \cup ConfigFiles, exec : {FALSE}]
    \cup [xml : {<<"<", "u", "s", "e", "r", ">", "<", "n", "a", "m", "e", ">", "t", "e", "s", "t", "<", "/", "n", "a", "m", "e", ">", "<", "/", "u", "s", "e", "r", ">">>}, json : {<<"{", "}">>}, num : {1}, config : {NoFile}, exec : {FALSE}]
    \cup [xml : {NoText}, json : {NoText}, num : {DefaultNum, MaxNum}, config : {NoFile, cfgExample, cfgPlain},
 exec : {FALSE}]
    \cup [xml : {NoText}, json : ExecJSONExamples, num : {1, MaxNum}, config : {NoFile} \cup ExecConfigFiles,
           exec : {TRUE}]
    \cup [xml : ExecXMLExamples, json : {NoText}, num : {1}, config : {NoFile} \cup ExecConfigFiles,
           exec : {TRUE}]

(***************************************************************************)
(* The local-gen run (cmd/localGen.go), one action per step of Run         *)
(***************************************************************************)
\* file.go:112-129: TRUE when the text is rejected
ValidateJSONFormat(content) ==
    LET t == TrimSpace(content)
    IN t = <<>> \/ ~JSONDecode(t).ok

\* file.go:92-109: TRUE when the text is rejected (xml.Unmarshal into an empty
\* interface reads up to the end of the root element)
ValidateXMLFormat(content) ==
    LET t == TrimSpace(content)
        p == XProlog(t)
    IN t = <<>> \/ ~p.ok \/ ~XElement(t, p.n).ok

\* config.go:50-70
LoadConfig(file) == [err |-> ~file.exists \/ ~file.parses, config |-> file]

\* config.go:73-96: the outcomes LoadConfigWithConstraints may have, global the
\* registry before the call
LoadConfigWithConstraints(file, global) ==
    IF LoadConfig(file).err THEN {[err |-> TRUE, kind |-> "LoadError", entries |-> <<>>, global |-> global]}
    ELSE IF DOMAIN file.Constraints # {} \/ Len(file.BuiltinData.FirstNames) > 0
    THEN {IF es # <<>>
          THEN [err |-> TRUE, kind |-> "ConfigError", entries |-> es, global |-> global]
          ELSE [err |-> FALSE, kind |-> "none", entries |-> <<>>,
                global |-> SomeConstraintConfig(ConstraintConfig(file.Constraints, file.BuiltinData))] :
             es \in ValidateConstraintConfig(ConstraintConfig(file.Constraints, file.BuiltinData))}
    ELSE {[err |-> FALSE, kind |-> "none", entries |-> <<>>, global |-> global]}

NotWritten == [written |-> FALSE]
NoCall == [fn |-> "none"]
Written(rows) == [written |-> TRUE, rows |-> rows]

\* http.go:15-22 (URL, Timeout and IgnoreTLS are not modelled)
HTTPRequest(method, contentType, body) ==
    [Method |-> method, ContentType |-> contentType, Body |-> body]

\* http.go:25-31: the zero value, and the responses SendRequest may produce for a
\* request (the server of the model answers with the body it was sent)
ZeroResponse == [StatusCode |-> 0, Body |-> <<>>, Error |-> FALSE]
SendRequest(req) ==
    {[StatusCode |-> 200, Body |-> req.Body, Error |-> FALSE],
     [StatusCode |-> 0, Body |-> <<>>, Error |-> TRUE]}

\* the state of a fresh process: no package variable is set
Fresh ==
    /\ errKind = "none"
    /\ errEntries = <<>>
    /\ inputContent = NoText
    /\ isXML = FALSE
    /\ useConstraints = FALSE
    /\ originalKeyOrder = <<>>
    /\ originalValueTypes = EmptyMap
    /\ originalRootElementName = <<>>
    /\ originalHasXMLDeclaration = FALSE
    /\ originalXMLDeclaration = <<>>
    /\ globalConstraintConfig = NoConstraintConfig
    /\ data = EmptyMap
    /\ testCases = <<>>
    /\ csvData = <<>>
    /\ csvFile = NotWritten
    /\ lastLoad = NoFile
    /\ calls = <<>>
    /\ ret = NoCall
    /\ requests = <<>>
    /\ concurrency = 0
    /\ responses = <<>>
    /\ jobs = [buf |-> <<>>, closed |-> FALSE]
    /\ results = <<>>
    /\ workers = <<>>
    /\ main = [pc |-> "idle", w |-> 0, j |-> 0, a |-> 0]
    /\ produced = <<>>

\* a local-gen run with one of the command lines, or a program that calls the
\* library directly (pc = "lib")
Init ==
    /\ Fresh
    /\ \/ /\ pc = "start"
          /\ \E inv \in Invocations :
                /\ xmlContent = inv.xml
                /\ jsonContent = inv.json
                /\ num = inv.num
                /\ configFile = inv.config
                /\ exec = inv.exec
       \/ /\ pc = "lib"
          /\ xmlContent = NoText
          /\ jsonContent = NoText
          /\ num = 0
          /\ configFile = NoFile
          /\ exec = FALSE

Abort(kind) == pc' = "done" /\ errKind' = kind

\* localGen.go:46-63: the flags are completed from the configuration file
RunLoadConfig ==
    /\ pc = "start"
    /\ IF configFile = NoFile
       THEN /\ pc' = "format"
            /\ UNCHANGED <<num, errKind, calls>>
       ELSE /\ calls' = Append(calls, "LoadConfig")
            /\ IF LoadConfig(configFile).err
               THEN Abort("LoadError") /\ UNCHANGED num
               ELSE /\ num' = IF num = DefaultNum /\ configFile.TestCase.Num # 0
                              THEN configFile.TestCase.Num ELSE num
                    /\ pc' = "format"
                    /\ UNCHANGED errKind
    /\ UNCHANGED <<sendVars, exec, requests, ret, xmlContent, jsonContent, errEntries, inputContent, isXML, configFile, useConstraints,
                   originalKeyOrder, originalValueTypes, originalRootElementName,
                   originalHasXMLDeclaration, originalXMLDeclaration, globalConstraintConfig,
                   data, testCases, csvData, csvFile, lastLoad>>

\* localGen.go:65-121: the format and the text of the positive example, validated
RunValidateFormat ==
    /\ pc = "format"
    /\ LET fromFile == xmlContent = NoText /\ jsonContent = NoText
           usable == configFile # NoFile /\ configFile.TestCase.Type \in {"xml", "json"}
                     /\ configFile.TestCase.PositiveExample # NoText
           xml == IF fromFile THEN configFile.TestCase.Type = "xml" ELSE xmlContent # NoText
           content == IF fromFile THEN configFile.TestCase.PositiveExample
                      ELSE IF xmlContent # NoText THEN xmlContent ELSE jsonContent
       IN IF (xmlContent # NoText /\ jsonContent # NoText) \/ (fromFile /\ ~usable)
          THEN Abort("UsageError") /\ UNCHANGED <<isXML, inputContent, calls>>
          ELSE /\ isXML' = xml
               /\ inputContent' = content
               /\ calls' = Append(calls, IF xml THEN "ValidateXMLFormat" ELSE "ValidateJSONFormat")
               /\ IF (IF xml THEN ValidateXMLFormat(content) ELSE ValidateJSONFormat(content))
                  THEN Abort("FormatError")
                  ELSE pc' = (IF exec THEN "request" ELSE "constraints") /\ UNCHANGED errKind
    /\ UNCHANGED <<sendVars, exec, requests, ret, xmlContent, jsonContent, errEntries, num, configFile, useConstraints,
                   originalKeyOrder, originalValueTypes, originalRootElementName,
                   originalHasXMLDeclaration, originalXMLDeclaration, globalConstraintConfig,
                   data, testCases, csvData, csvFile, lastLoad>>

\* localGen.go:134-159: the parameters of the requests, read from the request section
\* with the defaults of the run (Timeout and the authentication fields are not modelled)
RequestParams(file, xml) ==
    [URL |-> file.Request.URL,
     Method |-> IF file.Request.Method = <<>> THEN <<"p", "o", "s", "t">> ELSE file.Request.Method,
     Concurrent |-> IF file.Request.Concurrent = 0 THEN 1 ELSE file.Request.Concurrent,
     IsXML |-> xml, IsJSON |-> ~xml]

\* shared.go:37-55: TRUE when the parameters are rejected
validateRequestParams(params) ==
    \/ params.URL = <<>>
    \/ ~params.IsXML /\ ~params.IsJSON
    \/ params.IsXML /\ params.IsJSON

\* localGen.go:124-165: a run that executes reads its request parameters, from
\* config.toml when no configuration was named
RunLoadRequestParams ==
    /\ pc = "request"
    /\ calls' = Append(calls, "LoadConfig")
    /\ \E file \in (IF configFile = NoFile THEN ConfigToml ELSE {configFile}) :
          /\ configFile' = file
          /\ IF LoadConfig(file).err
             THEN Abort("LoadError")
             ELSE IF validateRequestParams(RequestParams(file, isXML))
             THEN Abort("RequestError")
             ELSE pc' = "constraints" /\ UNCHANGED errKind
    /\ UNCHANGED <<sendVars, exec, requests, ret, xmlContent, jsonContent, errEntries, inputContent, isXML, num,
                   useConstraints, originalKeyOrder, originalValueTypes, originalRootElementName,
                   originalHasXMLDeclaration, originalXMLDeclaration, globalConstraintConfig,
                   data, testCases, csvData, csvFile, lastLoad>>

\* a run that reports a rejected configuration and carries on
RunLoadConstraintsKeepsGoing ==
    /\ pc = "constraints"
    /\ IF configFile = NoFile
       THEN /\ pc' = "parse"
            /\ UNCHANGED <<errKind, errEntries, useConstraints, globalConstraintConfig, lastLoad, calls>>
       ELSE /\ calls' = Append(calls, "LoadConfigWithConstraints")
            /\ \E out \in LoadConfigWithConstraints(configFile, globalConstraintConfig) :
                  IF out.err
                  THEN /\ errKind' = out.kind
                       /\ errEntries' = out.entries
                       /\ pc' = "parse"
                       /\ UNCHANGED <<useConstraints, globalConstraintConfig, lastLoad>>
                  ELSE /\ globalConstraintConfig' = out.global
                       /\ lastLoad' = configFile
                       /\ useConstraints' = (DOMAIN configFile.Constraints # {}
                                             \/ Len(configFile.BuiltinData.FirstNames) > 0)
                       /\ pc' = "parse"
                       /\ UNCHANGED <<errKind, errEntries>>
    /\ UNCHANGED <<sendVars, exec, requests, ret, xmlContent, jsonContent, inputContent, isXML, num, configFile,
                   originalKeyOrder, originalValueTypes, originalRootElementName,
                   originalHasXMLDeclaration, originalXMLDeclaration,
                   data, testCases, csvData, csvFile>>

\* localGen.go:179-196
RunLoadConstraints ==
    /\ pc = "constraints"
    /\ IF configFile = NoFile
       THEN /\ pc' = "parse"
            /\ UNCHANGED <<errKind, errEntries, useConstraints, globalConstraintConfig, lastLoad, calls>>
       ELSE /\ calls' = Append(calls, "LoadConfigWithConstraints")
            /\ \E out \in LoadConfigWithConstraints(configFile, globalConstraintConfig) :
                  IF out.err
                  THEN /\ Abort(out.kind)
                       /\ errEntries' = out.entries
                       /\ UNCHANGED <<useConstraints, globalConstraintConfig, lastLoad>>
                  ELSE /\ globalConstraintConfig' = out.global
                       /\ lastLoad' = configFile
                       /\ useConstraints' = (DOMAIN configFile.Constraints # {}
                                             \/ Len(configFile.BuiltinData.FirstNames) > 0)
                       /\ pc' = "parse"
                       /\ UNCHANGED <<errKind, errEntries>>
    /\ UNCHANGED <<sendVars, exec, requests, ret, xmlContent, jsonContent, inputContent, isXML, num, configFile,
                   originalKeyOrder, originalValueTypes, originalRootElementName,
                   originalHasXMLDeclaration, originalXMLDeclaration,
                   data, testCases, csvData, csvFile>>

\* the package variables of the generator, as the parsers read them
Structure ==
    [decl |-> originalXMLDeclaration, root |-> originalRootElementName, keyOrder |-> originalKeyOrder,
     hasDecl |-> originalHasXMLDeclaration]

\* localGen.go:198-216
RunParse ==
    /\ pc = "parse"
    /\ IF isXML
       THEN \E r \in {ParseXML(inputContent, Structure)} :
               /\ calls' = Append(calls, "ParseXML")
               /\ originalHasXMLDeclaration' = r.hasDecl
               /\ originalXMLDeclaration' = r.decl
               /\ originalRootElementName' = r.root
               /\ \E order \in r.keyOrders : originalKeyOrder' = order
               /\ data' = r.result
               /\ IF r.err THEN Abort("FormatError")
                  ELSE IF r.panic THEN Abort("Panic")
                  ELSE pc' = "generate" /\ UNCHANGED errKind
       ELSE \E r \in {ParseJSON(inputContent, originalKeyOrder)} :
               /\ calls' = Append(calls, "ParseJSON")
               /\ originalKeyOrder' = r.keyOrder
               /\ data' = r.result
               /\ IF r.err THEN Abort("FormatError") ELSE pc' = "generate" /\ UNCHANGED errKind
               /\ UNCHANGED <<originalHasXMLDeclaration, originalXMLDeclaration, originalRootElementName>>
    /\ UNCHANGED <<sendVars, exec, requests, ret, xmlContent, jsonContent, errEntries, inputContent, isXML, num, configFile,
                   useConstraints, originalValueTypes, globalConstraintConfig,
                   testCases, csvData, csvFile, lastLoad>>

\* localGen.go:218-225
RunGenerate ==
    /\ pc = "generate"
    /\ calls' = Append(calls, "GenerateTestCases")
    /\ \E keys \in (IF Len(originalKeyOrder) = 0 THEN Perms(DOMAIN data) ELSE {originalKeyOrder}) :
       \E rs \in [1..num -> Levels] :
       \E g \in {GenerateTestCasesWithConstraints(data, num, useConstraints, keys,
                                                   globalConstraintConfig, rs)} :
             IF g.panic
             THEN /\ Abort("Panic")
                  /\ originalKeyOrder' = g.keyOrder
                  /\ UNCHANGED <<testCases, originalValueTypes>>
             ELSE /\ testCases' = g.testCases
                  /\ originalKeyOrder' = g.keyOrder
                  /\ originalValueTypes' = g.types
                  /\ pc' = "convert"
                  /\ UNCHANGED errKind
    /\ UNCHANGED <<sendVars, exec, requests, ret, xmlContent, jsonContent, errEntries, inputContent, isXML, num, configFile,
                   useConstraints, originalRootElementName, originalHasXMLDeclaration,
                   originalXMLDeclaration, globalConstraintConfig, data, csvData, csvFile, lastLoad>>

\* localGen.go:227-235
RunConvert ==
    /\ pc = "convert"
    /\ calls' = Append(calls, IF isXML THEN "ConvertToXMLRows" ELSE "ConvertToJSONRows")
    /\ \E rows \in (IF isXML THEN ConvertToXMLRows(testCases, Structure)
                    ELSE ConvertToJSONRows(testCases, originalKeyOrder)) :
          csvData' = rows
    /\ pc' = "save"
    /\ UNCHANGED <<sendVars, exec, requests, ret, xmlContent, jsonContent, errKind, errEntries, inputContent, isXML, num, configFile,
                   useConstraints, originalKeyOrder, originalValueTypes, originalRootElementName,
                   originalHasXMLDeclaration, originalXMLDeclaration, globalConstraintConfig,
                   data, testCases, csvFile, lastLoad>>

\* localGen.go:237-243 and file.go:16-56: the file is written unless it cannot be created
RunSave ==
    /\ pc = "save"
    /\ calls' = Append(calls, "SaveToCSV")
    /\ \E created \in BOOLEAN :
          IF created
          THEN csvFile' = Written(csvData) /\ pc' = (IF exec THEN "execute" ELSE "done") /\ UNCHANGED errKind
          ELSE Abort("SaveError") /\ UNCHANGED csvFile
    /\ UNCHANGED <<sendVars, exec, requests, ret, xmlContent, jsonContent, errEntries, inputContent, isXML, num, configFile,
                   useConstraints, originalKeyOrder, originalValueTypes, originalRootElementName,
                   originalHasXMLDeclaration, originalXMLDeclaration, globalConstraintConfig,
                   data, testCases, csvData, lastLoad>>

\* the keys under which a test case holds the whole text of its request
kXMLContent == <<"_", "x", "m", "l", "_", "c", "o", "n", "t", "e", "n", "t">>
kJSONContent == <<"_", "j", "s", "o", "n", "_", "c", "o", "n", "t", "e", "n", "t">>

\* models/testcase.go: the Data of a test case that holds one text under one key
ContentData(key, content) == [k \in {key} |-> GoStr(content)]

\* localGen.go:247-270: the test cases a run that executes makes of the generated maps
DirectTestCases(tcs, xml) ==
    [i \in 1..Len(tcs) |->
        [Data |-> ContentData(IF xml THEN kXMLContent ELSE kJSONContent, jsonMarshal(GoMap(tcs[i])))]]

\* request.go:334-384: the test cases read from the rows of a file with the single
\* column XML or JSON (files with field columns are not modelled); err for a file
\* with no data row
parseCSVToTestCases(rows) ==
    IF Len(rows) < 2 THEN [err |-> TRUE, testCases |-> <<>>]
    ELSE [err |-> FALSE,
          testCases |->
             [i \in 1..(Len(rows) - 1) |->
                [Data |-> ContentData(IF ToUpper(rows[1][1]) = <<"X", "M", "L">> THEN kXMLContent ELSE kJSONContent,
                                      rows[i + 1][1])]]]

\* shared.go:185-300: the requests built for test cases that hold their text under
\* the key of the format (POST and GET carry it as the body, other methods no body)
buildHTTPRequestsWithAuth(tcs, method, useJSON, useXML) ==
    LET key == IF useXML THEN kXMLContent ELSE kJSONContent
        carries == ToUpper(method) \in {<<"P", "O", "S", "T">>, <<"G", "E", "T">>} /\ (useXML \/ useJSON)
        body(tc) == IF ~carries THEN <<>>
                    ELSE IF key \in DOMAIN tc.Data THEN tc.Data[key].v
                    ELSE jsonMarshal(GoMap(tc.Data))
        contentType(tc) == IF ~carries THEN ""
                           ELSE IF useXML /\ ~useJSON /\ key \in DOMAIN tc.Data THEN "application/xml"
                           ELSE "application/json"
    IN [i \in 1..Len(tcs) |-> HTTPRequest(ToUpper(method), contentType(tcs[i]), body(tcs[i]))]

\* localGen.go:245-279 and shared.go:91-135: the generated cases are sent; the
\* responses come back in the order of the requests
RunExecute ==
    /\ pc = "execute"
    /\ calls' = Append(calls, "executeTestCasesDirectly")
    /\ \E params \in {RequestParams(configFile, isXML)} :
       \E reqs \in {buildHTTPRequestsWithAuth(DirectTestCases(testCases, isXML), params.Method,
                                               ~params.IsXML, params.IsXML)} :
          /\ requests' = reqs
          /\ concurrency' = IF params.Concurrent <= 0 THEN 1 ELSE params.Concurrent
          /\ \E resps \in SeqOfEach([i \in 1..Len(reqs) |-> SendRequest(reqs[i])]) : responses' = resps
    /\ pc' = "done"
    /\ UNCHANGED <<jobs, results, workers, main, produced>>
    /\ UNCHANGED <<exec, ret, xmlContent, jsonContent, errKind, errEntries, inputContent, isXML, num, configFile,
                   useConstraints, originalKeyOrder, originalValueTypes, originalRootElementName,
                   originalHasXMLDeclaration, originalXMLDeclaration, globalConstraintConfig,
                   data, testCases, csvData, csvFile, lastLoad>>

(***************************************************************************)
(* Direct calls of the library (pc = "lib")                                *)
(***************************************************************************)
\* constraints.go:388-436: the outcomes LoadConstraintConfig may have
LoadConstraintConfig(file, global) ==
    IF ~file.exists \/ ~file.parses
    THEN {[err |-> TRUE, kind |-> "LoadError", entries |-> <<>>, global |-> global]}
    ELSE {IF es # <<>>
          THEN [err |-> TRUE, kind |-> "ConfigError", entries |-> es, global |-> global]
          ELSE [err |-> FALSE, kind |-> "none", entries |-> <<>>,
                global |-> SomeConstraintConfig(ConstraintConfig(file.Constraints, file.BuiltinData))] :
             es \in ValidateConstraintConfig(ConstraintConfig(file.Constraints, file.BuiltinData))}

\* the effect of a load on the registry; configFile records the file of the call
Loaded(file, out) ==
    /\ configFile' = file
    /\ errKind' = out.kind
    /\ errEntries' = out.entries
    /\ globalConstraintConfig' = out.global
    /\ lastLoad' = IF out.err THEN lastLoad ELSE file
    /\ UNCHANGED <<sendVars, exec, requests, ret, pc, xmlContent, jsonContent, inputContent, isXML, num, useConstraints,
                   originalKeyOrder, originalValueTypes, originalRootElementName,
                   originalHasXMLDeclaration, originalXMLDeclaration,
                   data, testCases, csvData, csvFile, calls>>

\* config.go:73-96 called with one of the files
CallLoadConfigWithConstraints ==
    /\ pc = "lib"
    /\ \E file \in ConfigFiles :
       \E out \in LoadConfigWithConstraints(file, globalConstraintConfig) : Loaded(file, out)

\* constraints.go:388-436 called with one of the files
CallLoadConstraintConfig ==
    /\ pc = "lib"
    /\ \E file \in ConfigFiles :
       \E out \in LoadConstraintConfig(file, globalConstraintConfig) : Loaded(file, out)

Next ==
    \/ RunLoadConfig
    \/ RunValidateFormat
    \/ RunLoadRequestParams
    \/ RunLoadConstraints
    \/ RunParse
    \/ RunGenerate
    \/ RunConvert
    \/ RunSave
    \/ RunExecute
    \/ CallLoadConfigWithConstraints
    \/ CallLoadConstraintConfig

Spec == Init /\ [][Next]_vars

(***************************************************************************)
(* Reading a run back: the rendered rows against the source text           *)
(***************************************************************************)
\* the run reached generation: its example was parsed
Parsed == pc \in {"generate", "convert", "save", "execute"} \/ (pc = "done" /\ "GenerateTestCases" \in {calls[i] : i \in 1..Len(calls)})

\* the rows have been rendered
Rendered == pc \in {"save", "execute"} \/ (pc = "done" /\ "SaveToCSV" \in {calls[i] : i \in 1..Len(calls)})

\* the text of each data row
RowTexts == [i \in 1..(Len(csvData) - 1) |-> csvData[i + 1][1]]

FormatTag == IF isXML THEN <<"X", "M", "L">> ELSE <<"J", "S", "O", "N">>

\* the top-level keys of a text in order; ok is FALSE when the text does not parse
TopKeys(xml, text) ==
    IF xml
    THEN LET r == XMLDecode(text)
         IN [ok |-> r.ok, keys |-> [i \in 1..Len(r.v.kids) |-> r.v.kids[i].name]]
    ELSE LET r == JSONDecode(text)
         IN IF r.ok /\ r.v.t = "obj" THEN [ok |-> TRUE, keys |-> [i \in 1..Len(r.v.v) |-> r.v.v[i].k]]
            ELSE [ok |-> FALSE, keys |-> <<>>]

\* the keys of a JSON value at every depth, in order
RECURSIVE JShape(_)
JShape(tr) ==
    CASE tr.t = "obj" -> <<"obj", [i \in 1..Len(tr.v) |-> <<tr.v[i].k, JShape(tr.v[i].val)>>]>>
      [] tr.t = "arr" -> <<"arr", [i \in 1..Len(tr.v) |-> JShape(tr.v[i])]>>
      [] OTHER -> <<"leaf">>

\* the names of the child elements of an element at every depth, in order
RECURSIVE XShape(_)
XShape(node) == [i \in 1..Len(node.kids) |-> <<node.kids[i].name, XShape(node.kids[i])>>]

\* the top-level members of a text with the shape of each value
Members(xml, text) ==
    IF xml
    THEN LET r == XMLDecode(text)
         IN IF r.ok THEN [i \in 1..Len(r.v.kids) |-> [k |-> r.v.kids[i].name, shape |-> XShape(r.v.kids[i])]]
            ELSE <<>>
    ELSE LET r == JSONDecode(text)
         IN IF r.ok /\ r.v.t = "obj"
            THEN [i \in 1..Len(r.v.v) |-> [k |-> r.v.v[i].k, shape |-> JShape(r.v.v[i].val)]]
            ELSE <<>>

\* a text is well-formed in its format
WellFormed(xml, text) ==
    IF xml THEN XMLDecode(text).ok
    ELSE LET r == JSONDecode(text) IN r.ok /\ r.v.t = "obj"

(***************************************************************************)
(* C1: for every parsed example and every requested count >= 1, generation *)
(* and row conversion yield one header row holding the uppercase format    *)
(* tag followed by exactly count rows of one column, in statistical and in *)
(* constrained mode: generation does not fail, and the table rendered has  *)
(* that form.                                                              *)
(***************************************************************************)
C1_HeaderAndCountRows ==
    (Parsed /\ num >= 1) =>
        /\ errKind # "Panic"
        /\ Rendered =>
              /\ Len(csvData) = num + 1
              /\ csvData[1] = <<FormatTag>>
              /\ \A i \in 2..Len(csvData) : Len(csvData[i]) = 1

(***************************************************************************)
(* C2: the sequence of top-level keys of every rendered variant (of every  *)
(* one that can be read back) is exactly the sequence of top-level keys of *)
(* the source text.                                                        *)
(***************************************************************************)
C2_TopLevelKeysKept ==
    Rendered =>
        \A i \in 1..Len(RowTexts) :
            TopKeys(isXML, RowTexts[i]).ok =>
                TopKeys(isXML, RowTexts[i]).keys = TopKeys(isXML, inputContent).keys

(***************************************************************************)
(* C3: the keys of every nested object of every rendered variant appear in *)
(* the order of the source text, at every depth: a top-level member of the *)
(* variant has the nested key order of the source member of that name.     *)
(***************************************************************************)
C3_NestedKeyOrderKept ==
    Rendered =>
        \A i \in 1..Len(RowTexts) :
            LET src == Members(isXML, inputContent)
                out == Members(isXML, RowTexts[i])
            IN \A a \in 1..Len(src) : \A b \in 1..Len(out) :
                  src[a].k = out[b].k => src[a].shape = out[b].shape

(***************************************************************************)
(* C4: every rendered variant is on its own well-formed text of the        *)
(* input's format, for every valid example.                                *)
(***************************************************************************)
C4_RowsWellFormed ==
    Rendered => \A i \in 1..Len(RowTexts) : WellFormed(isXML, RowTexts[i])

(***************************************************************************)
(* C5: every variant rendered from an XML example begins with an XML       *)
(* declaration exactly when the source had one, that declaration is the    *)
(* source's character for character, and the variant is a document whose   *)
(* root element has the name of the source's root element.                 *)
(***************************************************************************)
C5_PrologueAndRootKept ==
    (Rendered /\ isXML) =>
        \A i \in 1..Len(RowTexts) :
            /\ XMLDecode(RowTexts[i]).ok
            /\ XProlog(RowTexts[i]).decl = XProlog(inputContent).decl
            /\ XMLDecode(RowTexts[i]).v.name = XMLDecode(inputContent).v.name

Stopped == errKind \in {"FormatError", "ConfigError"}

NoGenerateNoSave ==
    /\ \A i \in 1..Len(calls) : calls[i] \notin {"GenerateTestCases", "ConvertToJSONRows", "ConvertToXMLRows", "SaveToCSV"}
    /\ testCases = <<>>
    /\ csvFile = NotWritten

(***************************************************************************)
(* C6: in the local-gen run, once the positive example was found malformed *)
(* or the constraint configuration failed validation, no test case has     *)
(* been generated, no file has been written, and no further call is made.  *)
(***************************************************************************)
C6_ErrorStopsRun ==
    /\ [](pc # "lib" /\ Stopped => NoGenerateNoSave)
    /\ [][pc # "lib" /\ Stopped => calls' = calls /\ testCases' = testCases /\ csvFile' = csvFile]_vars

C6_Witness ==
    /\ pc = "done" /\ errKind = "ConfigError" /\ num >= 1
    /\ calls[Len(calls)] = "LoadConfigWithConstraints"

EntriesOf(entries, field) == SelectSeq(entries, LAMBDA e : e.Field = field)

BuiltinFields == {fFirstNames, fLastNames, fAddresses, fEmailDomains}

\* the builtin data in which only the list of a field is the configuration's
OnlyList(bd, field) ==
    [FirstNames |-> IF field = fFirstNames THEN bd.FirstNames ELSE SomeBuiltinData.FirstNames,
     LastNames |-> IF field = fLastNames THEN bd.LastNames ELSE SomeBuiltinData.LastNames,
     Addresses |-> IF field = fAddresses THEN bd.Addresses ELSE SomeBuiltinData.Addresses,
     EmailDomains |-> IF field = fEmailDomains THEN bd.EmailDomains ELSE SomeBuiltinData.EmailDomains]

RECURSIVE SumOver(_, _)
SumOver(S, f) == IF S = {} THEN 0 ELSE LET x == CHOOSE x \in S : TRUE IN f[x] + SumOver(S \ {x}, f)

(***************************************************************************)
(* C7: constraint validation is not fail-fast: the error returned for a    *)
(* configuration holds, for every field and every builtin list, exactly    *)
(* the entries that field or list earns on its own, whatever else violates.*)
(***************************************************************************)
C7_EveryViolationReported ==
    errKind = "ConfigError" =>
        /\ \A f \in DOMAIN configFile.Constraints :
              EntriesOf(errEntries, f) = validateFieldConstraint(f, configFile.Constraints[f])
        /\ \A b \in BuiltinFields :
              EntriesOf(errEntries, b) = validateBuiltinData(OnlyList(configFile.BuiltinData, b))
        /\ Len(errEntries) =
              SumOver(DOMAIN configFile.Constraints \cup BuiltinFields,
                      [f \in DOMAIN configFile.Constraints \cup BuiltinFields |-> Len(EntriesOf(errEntries, f))])

C7_Witness ==
    /\ errKind = "ConfigError"
    /\ Cardinality({errEntries[i].Field : i \in 1..Len(errEntries)}) >= 5
    /\ Len(errEntries) = 8

InvertedFields(file) ==
    {f \in DOMAIN file.Constraints :
        /\ file.Constraints[f].Type \in {"integer", "float"}
        /\ IsSet(file.Constraints[f].Min) /\ IsSet(file.Constraints[f].Max)
        /\ file.Constraints[f].Max[1] < file.Constraints[f].Min[1]}

\* the configuration of the run, or of the last direct call, has been loaded
LoadAttempted ==
    \/ pc = "lib" /\ configFile # NoFile /\ configFile.exists
    \/ pc # "lib" /\ \E i \in 1..Len(calls) : calls[i] = "LoadConfigWithConstraints"

(***************************************************************************)
(* C8: loading a configuration in which an integer or float field declares *)
(* both bounds with max < min fails with a validation error that has an    *)
(* entry naming that field, and no generation has run.                     *)
(***************************************************************************)
C8_InvertedBoundsRejected ==
    (configFile # NoFile /\ InvertedFields(configFile) # {}) =>
        /\ LoadAttempted =>
              /\ errKind = "ConfigError"
              /\ \A f \in InvertedFields(configFile) :
                    \E i \in 1..Len(errEntries) :
                        errEntries[i].Field = f /\ errEntries[i].Message[1] = "max_lt_min"
        /\ \A i \in 1..Len(calls) : calls[i] # "GenerateTestCases"
        /\ testCases = <<>>

C8_Witness ==
    /\ pc = "done" /\ num >= 1 /\ errKind = "ConfigError"
    /\ InvertedFields(configFile) = {kAge}
    /\ \E i \in 1..Len(errEntries) : errEntries[i].Field = kAge /\ errEntries[i].Message[1] = "max_lt_min"

KeepsOriginal(c) == c.Type = "keep_original" \/ (IsSet(c.KeepOriginal) /\ c.KeepOriginal[1])

(***************************************************************************)
(* C9: in constrained mode, a field whose looked-up constraint has type    *)
(* keep_original or keep_original = true has in every variant the original *)
(* value of that field, whatever else the constraint carries.              *)
(***************************************************************************)
C9_KeepOriginalKept ==
    (useConstraints /\ errKind # "Panic") =>
        \A i \in 1..Len(testCases) : \A key \in DOMAIN testCases[i] :
            LET c == FindFieldConstraint(globalConstraintConfig, key)
            IN (IsSet(c) /\ KeepsOriginal(c[1])) => testCases[i][key] = MapGet(data, key)

C9_Witness ==
    /\ useConstraints /\ Len(testCases) = 2
    /\ kAge \in DOMAIN data /\ kName \in DOMAIN data
    /\ IsSet(FindFieldConstraint(globalConstraintConfig, kAge))
    /\ IsSet(FindFieldConstraint(globalConstraintConfig, kName))
    /\ FindFieldConstraint(globalConstraintConfig, kAge)[1].Type = "integer"
    /\ FindFieldConstraint(globalConstraintConfig, kAge)[1].KeepOriginal = Ptr(TRUE)
    /\ FindFieldConstraint(globalConstraintConfig, kName)[1].Type = "keep_original"
    /\ \A i \in 1..2 : testCases[i][kAge] = data[kAge] /\ testCases[i][kName] = data[kName]

FieldNames == {kName, kAge, kP, kO, kD, kId}

\* the registry that holds the constraints of one file and nothing else
RegistryOf(file) == [isNil |-> FALSE, Constraints |-> file.Constraints, BuiltinData |-> file.BuiltinData]

(***************************************************************************)
(* C10: after successful loads, lookup answers only from the configuration *)
(* loaded last: every field has the constraint that configuration gives    *)
(* it, and none when that configuration does not define it.                *)
(***************************************************************************)
C10_LookupFromLastLoad ==
    (pc = "lib" /\ lastLoad # NoFile) =>
        \A f \in FieldNames :
            FindFieldConstraint(globalConstraintConfig, f) = FindFieldConstraint(RegistryOf(lastLoad), f)

(***************************************************************************)
(* A program that calls the functions of the library directly, in any      *)
(* order (pc = "lib"); ret records the last call of a function that only   *)
(* returns a value.                                                        *)
(***************************************************************************)
DateConstraint(minDate, maxDate, format) ==
    [FieldConstraint("date", Nil, Nil, Nil, Nil, minDate, maxDate) EXCEPT !.Format = format]

DatetimeConstraint(minDatetime, maxDatetime, timezone) ==
    [FieldConstraint("datetime", Nil, Nil, Nil, Nil, <<>>, <<>>)
        EXCEPT !.MinDatetime = minDatetime, !.MaxDatetime = maxDatetime, !.Timezone = timezone]

\* the bounds <<min, max>> of the constraints given to the generators
NumberWindows ==
    {<<Ptr(18), Ptr(60)>>, <<Ptr(60), Ptr(18)>>, <<Ptr(200), Nil>>, <<Nil, Ptr(0)>>, <<Ptr(5), Ptr(5)>>,
     <<Nil, Nil>>, <<Ptr(-2), Ptr(-3)>>, <<Ptr(-3), Ptr(-2)>>, <<Ptr(1000), Nil>>}

DateWindows ==
    {<<<<>>, <<>>>>, <<<<"2", "0", "2", "0", "0", "1", "0", "1">>, <<"2", "0", "2", "0", "0", "1", "0", "3">>>>, <<<<"2", "0", "2", "0", "0", "1", "0", "1">>, <<"2", "0", "2", "0", "0", "1", "0", "1">>>>,
     <<<<"2", "0", "2", "0", "0", "1", "0", "3">>, <<"2", "0", "2", "0", "0", "1", "0", "1">>>>, <<<<"2", "0", "3", "1", "0", "1", "0", "1">>, <<>>>>, <<<<>>, <<"2", "0", "1", "9", "1", "2", "3", "1">>>>,
     <<<<"0", "0", "0", "1", "0", "1", "0", "1">>, <<"2", "0", "1", "0", "0", "1", "0", "1">>>>, <<<<"2", "0", "2", "4", "0", "2", "2", "8">>, <<"2", "0", "2", "4", "0", "3", "0", "1">>>>}

DatetimeWindows ==
    {<<<<>>, <<>>>>, <<<<"2", "0", "2", "0", "-", "0", "1", "-", "0", "1", "T", "1", "0", ":", "0", "0", ":", "0", "0", ".", "0", "0", "0", "+", "0", "8", ":", "0", "0">>, <<"2", "0", "2", "0", "-", "0", "1", "-", "0", "1", "T", "0", "3", ":", "0", "0", ":", "0", "0", "Z">>>>,
     <<<<"2", "0", "2", "0", "-", "0", "1", "-", "0", "2", "T", "0", "0", ":", "0", "0", ":", "0", "0", "Z">>, <<"2", "0", "2", "0", "-", "0", "1", "-", "0", "1", "T", "2", "3", ":", "5", "9", ":", "5", "9", ".", "9", "9", "9", "Z">>>>, <<<<"2", "0", "3", "1", "-", "0", "1", "-", "0", "1", "T", "0", "0", ":", "3", "0", ":", "0", "0", ".", "0", "0", "0", "Z">>, <<>>>>,
     <<<<>>, <<"2", "0", "1", "9", "-", "1", "2", "-", "3", "1", "T", "2", "3", ":", "0", "0", ":", "0", "0", "-", "0", "2", ":", "0", "0">>>>}

\* integer constraints whose bounds <<min, max>> are not whole numbers (in hundredths)
FractionalWindows == {<<150, 250>>, <<150, 190>>, <<-150, -50>>, <<250, 150>>, <<50, 300>>}

FractionalConstraints ==
    {[FieldConstraint("integer", Nil, Nil, Nil, Nil, <<>>, <<>>) EXCEPT !.Min = Ptr(w[1]), !.Max = Ptr(w[2])] :
        w \in FractionalWindows}

\* float constraints with bounds <<min, max>> given to the hundredth
FractionalFloatConstraints ==
    {[FieldConstraint("float", Nil, Nil, p, Nil, <<>>, <<>>) EXCEPT !.Min = Ptr(w[1]), !.Max = Ptr(w[2])] :
        w \in {<<126, 126>>, <<-126, -126>>, <<-126, 126>>, <<-125, -125>>}, p \in {Nil, Ptr(0), Ptr(1)}}

GenConstraints ==
    {FieldConstraint("integer", w[1], w[2], Nil, Nil, <<>>, <<>>) : w \in NumberWindows}
    \cup {FieldConstraint("float", w[1], w[2], p, Nil, <<>>, <<>>) : w \in NumberWindows, p \in {Nil, Ptr(0), Ptr(1)}}
    \cup {DateConstraint(w[1], w[2], f) : w \in DateWindows, f \in {<<>>, <<"2", "0", "0", "6", "-", "0", "1", "-", "0", "2">>}}
    \cup {DatetimeConstraint(w[1], w[2], z) : w \in DatetimeWindows, z \in {<<>>, <<"U", "T", "C">>, <<"+", "0", "8", ":", "0", "0">>, <<"-", "0", "5", ":", "3", "0">>}}
    \cup {FieldConstraint("phone", Nil, Nil, Nil, Nil, <<>>, <<>>),
          FieldConstraint("keep_original", Nil, Nil, Nil, Nil, <<>>, <<>>)}
    \cup FractionalConstraints \cup FractionalFloatConstraints

GenOriginals == {GoInt("int", 25), GoStr(<<"x">>)}

\* the variables a call that only returns a value leaves alone
ReturnsOnly ==
    UNCHANGED <<sendVars, exec, requests,
                pc, xmlContent, jsonContent, errKind, errEntries, inputContent, isXML, num, configFile,
                useConstraints, originalKeyOrder, originalValueTypes, originalRootElementName,
                originalHasXMLDeclaration, originalXMLDeclaration, globalConstraintConfig,
                data, testCases, csvData, csvFile, lastLoad, calls>>

\* constraints.go:480-514 called with a constraint and an original value
CallGenerateConstrainedValue ==
    /\ pc = "lib"
    /\ \E constraint \in GenConstraints : \E original \in GenOriginals : \E r \in Levels :
          ret' = [fn |-> "GenerateConstrainedValue", constraint |-> constraint, original |-> original,
                  value |-> GenerateConstrainedValue(Ptr(constraint), original, r)]
    /\ ReturnsOnly

\* integers, of every sign, handed to the statistical variation
VariationIntegers == {GoInt(w, v) : w \in {"int", "int64"}, v \in {25, 0, 1, -1, -2, -10, 3, 7}}

\* plain strings handed to the statistical variation
VariationStrings ==
    {<<"a">>, <<"a", "b", "c", "d", "e">>, <<"a", "b", "c", "d", "e", "f", "g", "h", "i", "j">>, <<"h", "e", "l", "l", "o", " ", "w", "o", "r", "l", "d">>, <<"U+5F20", "U+4E09">>,
     <<"U+5F20", "U+4E09", "a", "b">>, <<"a", "b">>,
     <<"U+5F20", "U+4E09", "U+5F20", "U+4E09">>}

\* numeric strings handed to the statistical variation
VariationNumericStrings ==
    {<<"0">>, <<"1">>, <<"2", "5">>, <<"3">>, <<"-", "1">>, <<"-", "2">>, <<"-", "1", "0">>, <<"+", "4">>,
     <<"2", ".", "5", "0">>, <<"0", ".", "5">>, <<"-", "1", ".", "2", "5">>, <<"7", ".", "0">>, <<"1", "0", ".", "0", "0", "0">>}

\* generateVariation(value, 0.5) called on a value (part_008:728)
CallGenerateVariation ==
    /\ pc = "lib"
    /\ \E original \in VariationIntegers \cup {GoStr(s) : s \in VariationStrings \cup VariationNumericStrings} : \E r \in Levels :
         ret' = [fn |-> "generateVariation", original |-> original, draw |-> r,
                 value |-> generateVariation(original, r)]
    /\ ReturnsOnly

\* randomizeString(s) called on a string (part_008:859)
CallRandomizeString ==
    /\ pc = "lib"
    /\ \E s \in VariationStrings : \E r \in Levels :
         ret' = [fn |-> "randomizeString", original |-> s, value |-> randomizeString(s, r)]
    /\ ReturnsOnly

\* registries in force when a constraint is looked up, and the field names asked for
LookupRegistries ==
    {SomeConstraintConfig([Constraints |->
        (kAge :> FieldConstraint("integer", Ptr(18), Ptr(60), Nil, Nil, <<>>, <<>>))
        @@ (<<"N", "a", "m", "e">> :> FieldConstraint("phone", Nil, Nil, Nil, Nil, <<>>, <<>>)),
        BuiltinData |-> SomeBuiltinData]),
     SomeConstraintConfig([Constraints |->
        (<<"A", "g", "e">> :> FieldConstraint("integer", Ptr(1), Ptr(9), Nil, Nil, <<>>, <<>>))
        @@ (<<"u", "s", "e", "r", ".", "a", "g", "e">> :> FieldConstraint("float", Nil, Nil, Ptr(1), Nil, <<>>, <<>>))
        @@ (kName :> FieldConstraint("keep_original", Nil, Nil, Nil, Nil, <<>>, <<>>)),
        BuiltinData |-> SomeBuiltinData]),
     NoConstraintConfig}

LookupNames ==
    {<<"a", "g", "e">>, <<"A", "g", "e">>, <<"A", "G", "E">>, <<"n", "a", "m", "e">>, <<"N", "a", "m", "e">>, <<"u", "s", "e", "r", ".", "a", "g", "e">>, <<"U", "s", "e", "r", ".", "A", "g", "e">>, <<"x", ".", "N", "a", "m", "e">>,
     <<"x", ".", "n", "a", "m", "e">>, <<"x", ".", "N", "A", "M", "E">>, <<"z", "z">>, <<"a", ".", "z", "z">>}

\* constraints.go:445-477 called with a field name
CallFindFieldConstraint ==
    /\ pc = "lib"
    /\ \E global \in LookupRegistries : \E fieldName \in LookupNames :
         ret' = [fn |-> "FindFieldConstraint", global |-> global, fieldName |-> fieldName,
                 value |-> FindFieldConstraint(global, fieldName)]
    /\ ReturnsOnly

(***************************************************************************)
(* Zone offsets                                                            *)
(***************************************************************************)
\* constraints.go:664-703: "" when the offset is accepted, else the kind of the error
\* (strconv.Atoi reads an optional sign before the digits)
validateTimezoneOffset(offset) ==
    IF Len(offset) # 6 \/ offset[4] # ":" THEN "format"
    ELSE IF offset[1] \notin {"+", "-"} THEN "sign"
    ELSE IF ~IsIntLit(SubSeq(offset, 2, 3)) THEN "hours"
    ELSE IF ~IsIntLit(SubSeq(offset, 5, 6)) THEN "minutes"
    ELSE IF IntLitVal(SubSeq(offset, 2, 3)) < 0 \/ IntLitVal(SubSeq(offset, 2, 3)) > 23 THEN "hourRange"
    ELSE IF IntLitVal(SubSeq(offset, 5, 6)) < 0 \/ IntLitVal(SubSeq(offset, 5, 6)) > 59 THEN "minuteRange"
    ELSE IF parseTimezoneOffset(offset).v < -12 * 60 \/ parseTimezoneOffset(offset).v > 14 * 60
         THEN "totalRange"
    ELSE ""

\* constraints.go:640-661: the offset form of ValidateTimezone; the names of the zone
\* database are not part of the model
ValidateTimezone(timezone) ==
    IF timezone = <<>> \/ timezone = <<"U", "T", "C">> THEN ""
    ELSE IF HasPrefix(timezone, <<"+">>) \/ HasPrefix(timezone, <<"-">>) THEN validateTimezoneOffset(timezone)
    ELSE "location"

\* the offsets of TestValidateTimezoneOffset (constraints_test.go:152-176) and further texts
TimezoneOffsets ==
    {<<"+", "0", "8", ":", "0", "0">>, <<"-", "0", "5", ":", "0", "0">>, <<"+", "0", "0", ":", "0", "0">>, <<"+", "1", "4", ":", "0", "0">>, <<"-", "1", "2", ":", "0", "0">>, <<"+", "0", "5", ":", "3", "0">>, <<"+", "0", "9", ":", "4", "5">>,
     <<"+", "0", "8", "0", "0">>, <<"+", "8", ":", "0", "0">>, <<"+", "0", "8", ":", "0">>, <<"0", "8", ":", "0", "0">>, <<"*", "0", "8", ":", "0", "0">>, <<"+", "2", "5", ":", "0", "0">>, <<"+", "0", "8", ":", "6", "0">>, <<"-", "2", "5", ":", "0", "0">>,
     <<"+", "1", "5", ":", "0", "0">>, <<"-", "1", "3", ":", "0", "0">>, <<"+", "0", "8", ":", "0", "0", ":", "0", "0">>, <<"+", "0", "8", ":">>, <<"+", "a", "b", ":", "0", "0">>, <<"+", "0", "8", ":", "a", "b">>,
     <<"-", "0", "0", ":", "0", "0">>, <<"+", "1", "4", ":", "0", "1">>, <<"-", "1", "2", ":", "0", "1">>, <<"+", "1", "3", ":", "5", "9">>, <<"-", "1", "1", ":", "5", "9">>, <<"+", "2", "3", ":", "5", "9">>, <<"+", "2", "4", ":", "0", "0">>,
     <<"+", "+", "8", ":", "0", "0">>, <<"+", "-", "0", ":", "0", "0">>, <<"+", "0", "8", ":", "+", "5">>, <<"-", "+", "5", ":", "-", "0">>, <<"+", "-", "5", ":", "0", "0">>, <<"+", "0", "8", ":", "-", "5">>, <<"+", " ", "8", ":", "0", "0">>,
     <<"+", "0", "8", " ", "0", "0">>, <<>>, <<"U", "T", "C">>, <<"+">>}

\* validateTimezoneOffset called on a text
CallValidateTimezoneOffset ==
    /\ pc = "lib"
    /\ \E offset \in TimezoneOffsets :
         ret' = [fn |-> "validateTimezoneOffset", offset |-> offset,
                 value |-> validateTimezoneOffset(offset),
                 zone |-> ValidateTimezone(offset)]
    /\ ReturnsOnly

\* JSON texts handed to extractJSONKeys
KeyTexts ==
    {<<"{", "\"", "n", "a", "m", "e", "\"", ":", "\"", "a", "b", "\"", ",", "\"", "a", "g", "e", "\"", ":", "2", "5", "}">>,
     <<"{", "\"", "f", " ", "n", "\"", ":", "\"", "x", "\"", ",", "\"", "i", "d", "\"", ":", "7", "}">>,
     <<"{", "\"", "a", ":", "b", "\"", ":", "1", ",", "\"", "c", ",", "d", "\"", ":", "\"", "{", "[", "x", "\"", ",", "\"", "e", "\"", ":", "\"", ":", " ", ",", "\"", "}">>,
     <<"{", "\"", "a", "\"", ":", "\"", "x", "\\", "\"", "y", "\"", ",", "\"", "b", "\"", ":", "1", "}">>,
     <<"{", "\"", "a", "\\", "\"", "b", "\"", ":", "1", "}">>,
     <<"{", "\"", "a", "\"", ":", "\"", "x", "\\", "\\", "\"", ",", "\"", "b", "\"", ":", "2", "}">>,
     <<"{", "\"", "a", "\"", ":", "1", "}", "\r", "\n">>,
     <<"{", "\r", "\n", "\"", "a", "\"", ":", "1", ",", "\r", "\n", "\"", "b", "\"", ":", "2", "\r", "\n", "}">>,
     <<" ", "{", "\"", "a", "\"", ":", " ", "{", "\"", "n", "\"", ":", "1", "}", ",", " ", "\"", "b", "\"", ":", "[", "{", "\"", "m", "\"", ":", "2", "}", "]", ",", "\n", "\t", "\"", "c", "\"", ":", " ", "\"", "x", " ", "y", "\"", " ", "}", " ", "\n">>,
     <<"{", "}">>,
     <<"[", "1", "]">>,
     <<"{", "\"", "a", "\"", ":">>}

\* extractJSONKeys called on a text (part_008:568)
CallExtractJSONKeys ==
    /\ pc = "lib"
    /\ \E text \in KeyTexts :
         ret' = [fn |-> "extractJSONKeys", text |-> text, value |-> extractJSONKeys(text)]
    /\ ReturnsOnly

\* XML documents handed to extractXMLKeys
KeyDocuments ==
    {<<"<", "u", "s", "e", "r", ">", "<", "n", "a", "m", "e", ">", "t", "e", "s", "t", "<", "/", "n", "a", "m", "e", ">", "<", "a", "g", "e", ">", "2", "5", "<", "/", "a", "g", "e", ">", "<", "/", "u", "s", "e", "r", ">">>,
     <<"<", "?", "x", "m", "l", " ", "v", "e", "r", "s", "i", "o", "n", "=", "\"", "1", ".", "0", "\"", "?", ">", "\n", "<", "r", ">", "\n", " ", " ", "<", "b", ">", "1", "<", "/", "b", ">", "\n", " ", " ", "<", "a", " ", "k", "=", "\"", "v", "\"", ">", "2", "<", "/", "a", ">", "\n", "<", "/", "r", ">">>,
     <<"<", "r", ">", "<", "x", ">", "1", "<", "/", "x", ">", "<", "y", ">", "2", "<", "/", "y", ">", "<", "x", ">", "3", "<", "/", "x", ">", "<", "/", "r", ">">>,
     <<"<", "r", ">", "<", "o", ">", "<", "n", ">", "1", "<", "/", "n", ">", "<", "m", ">", "2", "<", "/", "m", ">", "<", "/", "o", ">", "<", "p", ">", "3", "<", "/", "p", ">", "<", "/", "r", ">">>,
     <<"<", "r", ">", "<", "e", "/", ">", "<", "f", ">", "1", "<", "/", "f", ">", "<", "/", "r", ">">>,
     <<"<", "a", ">", "<", "a", ">", "1", "<", "/", "a", ">", "<", "b", ">", "2", "<", "/", "b", ">", "<", "/", "a", ">">>,
     <<"<", "r", ">", "<", "x", "/", ">", "<", "y", ">", "1", "<", "/", "y", ">", "<", "x", ">", "2", "<", "/", "x", ">", "<", "/", "r", ">">>,
     <<"<", "r", ">", "<", "x", ">", "<", "x", ">", "1", "<", "/", "x", ">", "<", "y", ">", "2", "<", "/", "y", ">", "<", "/", "x", ">", "<", "/", "r", ">">>,
     <<"<", "r", ">", "<", "/", "r", ">">>,
     <<"<", "r", ">", "<", "x", ">", "1", "<", "/", "r", ">">>}

\* extractXMLKeys called on a text (part_008:106)
CallExtractXMLKeys ==
    /\ pc = "lib"
    /\ \E text \in KeyDocuments :
         ret' = [fn |-> "extractXMLKeys", text |-> text, value |-> extractXMLKeys(text)]
    /\ ReturnsOnly

CallInit ==
    /\ Fresh
    /\ pc = "lib"
    /\ xmlContent = NoText
    /\ jsonContent = NoText
    /\ num = 0
    /\ configFile = NoFile
    /\ exec = FALSE

CallNext ==
    \/ CallGenerateConstrainedValue
    \/ CallGenerateVariation
    \/ CallRandomizeString
    \/ CallFindFieldConstraint
    \/ CallValidateTimezoneOffset
    \/ CallExtractJSONKeys
    \/ CallExtractXMLKeys

CallSpec == CallInit /\ [][CallNext]_vars

(***************************************************************************)
(* Reading a direct call back                                              *)
(***************************************************************************)
\* the bounds a constraint gives to its generator: the given ones, else the defaults
\* (numbers in hundredths, dates and datetimes as times)
EffectiveMin(c) ==
    CASE c.Type = "integer" -> IF IsSet(c.Min) THEN c.Min[1] ELSE 100
      [] c.Type = "float" -> IF IsSet(c.Min) THEN c.Min[1] ELSE 1
      [] c.Type = "date" -> IF c.MinDate # <<>> /\ ~ParseDateTime(c.MinDate).err
                            THEN ParseDateTime(c.MinDate).t ELSE DefaultMinDate
      [] c.Type = "datetime" -> IF c.MinDatetime # <<>> /\ ~ParseRFC3339(c.MinDatetime).err
                                THEN ParseRFC3339(c.MinDatetime).t ELSE DefaultMinDate

EffectiveMax(c) ==
    CASE c.Type = "integer" -> IF IsSet(c.Max) THEN c.Max[1] ELSE 10000
      [] c.Type = "float" -> IF IsSet(c.Max) THEN c.Max[1] ELSE 99999
      [] c.Type = "date" -> IF c.MaxDate # <<>> /\ ~ParseDateTime(c.MaxDate).err
                            THEN ParseDateTime(c.MaxDate).t ELSE DefaultMaxDate
      [] c.Type = "datetime" -> IF c.MaxDatetime # <<>> /\ ~ParseRFC3339(c.MaxDatetime).err
                                THEN ParseRFC3339(c.MaxDatetime).t
                                ELSE Time(DefaultMaxDate.day, MsPerDay - 1)

InvertedWindow(c) ==
    IF c.Type \in {"integer", "float"} THEN EffectiveMax(c) < EffectiveMin(c)
    ELSE Before(EffectiveMax(c), EffectiveMin(c))

\* the minimum bound of a constraint as its generator renders it: an int, a float of
\* the precision (2 when none is given), a date in the format, a datetime in the zone
MinimumBound(c) ==
    CASE c.Type = "integer" -> GoInt("int", EffectiveMin(c) \div 100)
      [] c.Type = "float" ->
            LET p == IF IsSet(c.Precision) THEN c.Precision[1] ELSE 2
            IN NormFloat(RoundDiv(EffectiveMin(c) * Pow10(p), 100), p)
      [] c.Type = "date" ->
            GoStr(FormatDate(IF c.Format = <<>> THEN <<"2", "0", "0", "6", "0", "1", "0", "2">> ELSE c.Format, EffectiveMin(c)))
      [] c.Type = "datetime" -> GoStr(FormatRFC3339(EffectiveMin(c), targetTimezone(c.Timezone)))

(***************************************************************************)
(* C11: when the effective maximum of a date, datetime, integer or float   *)
(* constraint (given or default) lies below its effective minimum, the     *)
(* generator returns the minimum bound, rendered in the configured format  *)
(* or precision.                                                           *)
(***************************************************************************)
C11_InvertedWindowGivesMinimum ==
    (ret.fn = "GenerateConstrainedValue"
     /\ ret.constraint.Type \in {"integer", "float", "date", "datetime"}
     /\ InvertedWindow(ret.constraint)) => ret.value = MinimumBound(ret.constraint)

(***************************************************************************)
(* C12: for every integer original, positive, zero or negative, the        *)
(* statistical variation completes and returns an integer n of the same    *)
(* integer type with |n - original| <= round(|original| * 0.5) + 1         *)
(* (original 25 gives a value in 12..38).                                  *)
(***************************************************************************)
C12_IntegerVariationCompletes ==
    (ret.fn = "generateVariation" /\ ret.original.t = "int") =>
        /\ ~IsPanic(ret.value)
        /\ ret.value.t = "int"
        /\ ret.value.w = ret.original.w
        /\ Abs(ret.value.v - ret.original.v) <= (Abs(ret.original.v) + 1) \div 2 + 1
        /\ ret.original.v = 25 => ret.value.v \in 12..38

\* ceil(0.9 * len) and floor(1.1 * len)
CeilNineTenths(len) == (9 * len + 9) \div 10
FloorElevenTenths(len) == (11 * len) \div 10

(***************************************************************************)
(* C13: for every non-empty plain string of len characters (runes, not     *)
(* bytes), a statistical variant has a character length in                 *)
(* ceil(0.9 * len)..floor(1.1 * len), and never less than 1.               *)
(***************************************************************************)
C13_StringVariantLength ==
    ret.fn = "randomizeString" =>
        /\ Len(ret.value) >= CeilNineTenths(Len(ret.original))
        /\ Len(ret.value) <= FloorElevenTenths(Len(ret.original))
        /\ Len(ret.value) >= 1

(***************************************************************************)
(* Sessions: a caller of the library works in rounds, any number of them in *)
(* one process: it parses an example, then generates test cases from it    *)
(* and renders what it has parsed or generated.  The rows and test cases   *)
(* of a round are the caller's own; the package variables live as long as  *)
(* the process.                                                            *)
(***************************************************************************)
SessionJSON ==
    {<<"{", "\"", "n", "a", "m", "e", "\"", ":", "\"", "a", "b", "\"", ",", "\"", "a", "g", "e", "\"", ":", "2", "5", "}">>, <<"{", "\"", "n", "\"", ":", "-", "1", "0", ",", "\"", "p", "\"", ":", "2", ".", "5", "0", "}">>, <<"{", "\"", "q", "\"", ":", "\"", "2", ".", "5", "0", "\"", "}">>, <<"{", "}">>}

SessionXML ==
    {<<"<", "u", "s", "e", "r", ">", "<", "n", "a", "m", "e", ">", "t", "e", "s", "t", "<", "/", "n", "a", "m", "e", ">", "<", "/", "u", "s", "e", "r", ">">>, <<"<", "r", ">", "<", "p", ">", "2", ".", "5", "0", "<", "/", "p", ">", "<", "/", "r", ">">>}

\* everything the calls of a session leave alone
SessionFrame ==
    UNCHANGED <<sendVars, exec, requests,
                pc, xmlContent, jsonContent, errEntries, num, configFile, useConstraints,
                globalConstraintConfig, csvFile, lastLoad, calls>>

\* part_008:541-566 called with an example
CallParseJSON ==
    /\ pc = "session"
    /\ \E jsonStr \in SessionJSON : \E r \in {ParseJSON(jsonStr, originalKeyOrder)} :
          /\ inputContent' = jsonStr
          /\ isXML' = FALSE
          /\ originalKeyOrder' = r.keyOrder
          /\ data' = r.result
          /\ errKind' = IF r.err THEN "FormatError" ELSE "none"
          /\ ret' = [fn |-> "ParseJSON"]
    /\ testCases' = <<>>
    /\ csvData' = <<>>
    /\ UNCHANGED <<originalHasXMLDeclaration, originalXMLDeclaration, originalRootElementName,
                   originalValueTypes>>
    /\ SessionFrame

\* part_008:27-91 called with an example
CallParseXML ==
    /\ pc = "session"
    /\ \E xmlStr \in SessionXML : \E r \in {ParseXML(xmlStr, Structure)} :
          /\ inputContent' = xmlStr
          /\ isXML' = TRUE
          /\ originalHasXMLDeclaration' = r.hasDecl
          /\ originalXMLDeclaration' = r.decl
          /\ originalRootElementName' = r.root
          /\ \E order \in r.keyOrders : originalKeyOrder' = order
          /\ data' = r.result
          /\ errKind' = IF r.err THEN "FormatError" ELSE IF r.panic THEN "Panic" ELSE "none"
          /\ ret' = [fn |-> "ParseXML"]
    /\ testCases' = <<>>
    /\ csvData' = <<>>
    /\ UNCHANGED originalValueTypes
    /\ SessionFrame

\* part_008:636-725 called on the parsed example for one test case: a panic leaves
\* the caller's test cases as they were
CallGenerateTestCases ==
    /\ pc = "session"
    /\ ret.fn # "none"
    /\ errKind = "none"
    /\ \E keys \in (IF Len(originalKeyOrder) = 0 THEN Perms(DOMAIN data) ELSE {originalKeyOrder}) :
       \E rs \in [{1} -> Levels] :
       \E g \in {GenerateTestCasesWithConstraints(data, 1, useConstraints, keys,
                                                   globalConstraintConfig, rs)} :
             /\ originalKeyOrder' = g.keyOrder
             /\ IF g.panic
                THEN /\ errKind' = "Panic"
                     /\ UNCHANGED <<testCases, originalValueTypes>>
                ELSE /\ testCases' = g.testCases
                     /\ originalValueTypes' = g.types
                     /\ UNCHANGED errKind
    /\ ret' = [fn |-> "GenerateTestCases"]
    /\ UNCHANGED <<inputContent, isXML, originalHasXMLDeclaration, originalXMLDeclaration,
                   originalRootElementName, data, csvData>>
    /\ SessionFrame

\* part_008:936-961 and 1071-1097 called on the generated test cases
CallConvertToRows ==
    /\ pc = "session"
    /\ ret.fn = "GenerateTestCases"
    /\ errKind = "none"
    /\ \E rows \in (IF isXML THEN ConvertToXMLRows(testCases, Structure)
                    ELSE ConvertToJSONRows(testCases, originalKeyOrder)) :
          csvData' = rows
    /\ ret' = [fn |-> "ConvertToRows", source |-> "testCases"]
    /\ UNCHANGED <<inputContent, isXML, errKind, originalKeyOrder, originalValueTypes,
                   originalHasXMLDeclaration, originalXMLDeclaration, originalRootElementName,
                   data, testCases>>
    /\ SessionFrame

\* the same renderers called on the parsed example itself: a row with no mutation
CallConvertParsed ==
    /\ pc = "session"
    /\ ret.fn \in {"ParseJSON", "ParseXML"}
    /\ errKind = "none"
    /\ \E rows \in (IF isXML THEN ConvertToXMLRows(<<data>>, Structure)
                    ELSE ConvertToJSONRows(<<data>>, originalKeyOrder)) :
          csvData' = rows
    /\ ret' = [fn |-> "ConvertToRows", source |-> "data"]
    /\ UNCHANGED <<inputContent, isXML, errKind, originalKeyOrder, originalValueTypes,
                   originalHasXMLDeclaration, originalXMLDeclaration, originalRootElementName,
                   data, testCases>>
    /\ SessionFrame

SessionInit ==
    /\ Fresh
    /\ pc = "session"
    /\ xmlContent = NoText
    /\ jsonContent = NoText
    /\ num = 0
    /\ configFile = NoFile
    /\ exec = FALSE

SessionNext ==
    \/ CallParseJSON
    \/ CallParseXML
    \/ CallGenerateTestCases
    \/ CallConvertToRows
    \/ CallConvertParsed

SessionSpec == SessionInit /\ [][SessionNext]_vars

\* the numeric literals of a text: its maximal runs of digits, signs and points that
\* hold a digit
RECURSIVE NumericLiteralsFrom(_, _, _)
NumericLiteralsFrom(text, i, run) ==
    LET done == IF \E j \in 1..Len(run) : run[j] \in Digits THEN {run} ELSE {}
    IN IF i > Len(text) THEN done
       ELSE IF text[i] \in Digits \cup {".", "-"} THEN NumericLiteralsFrom(text, i + 1, Append(run, text[i]))
       ELSE done \cup NumericLiteralsFrom(text, i + 1, <<>>)

NumericLiterals(text) == NumericLiteralsFrom(text, 1, <<>>)

(***************************************************************************)
(* C14: parsing a valid example and rendering it with no mutation gives    *)
(* every numeric literal with the decimal places of the source text (a     *)
(* source 2.50 is rendered 2.50, not 2.5), for JSON numbers, numeric JSON  *)
(* strings and numeric XML text alike.                                     *)
(***************************************************************************)
C14_LiteralsKeepDecimals ==
    (ret.fn = "ConvertToRows" /\ ret.source = "data" /\ Len(csvData) = 2) =>
        NumericLiterals(csvData[2][1]) = NumericLiterals(inputContent)

\* the values a constraint's generator may give a field, and the statistical
\* variations of an original value
ConstrainedValues(constraint, original) ==
    {GenerateConstrainedValue(constraint, original, r) : r \in Levels}
Variations(original) == {generateVariation(original, r) : r \in Levels}

\* a generated value follows the rule of the leaves: below a field that has no
\* constraint of its own, every leaf named by a constraint holds a value of that
\* constraint's generator and every other leaf a variation of its original
RECURSIVE LeavesFollow(_, _, _, _)
LeavesFollow(global, name, original, value) ==
    IF IsSet(FindFieldConstraint(global, name))
    THEN original.t = "map" \/ value \in ConstrainedValues(FindFieldConstraint(global, name), original)
    ELSE IF original.t = "map"
    THEN /\ value.t = "map"
         /\ \A k \in DOMAIN original.v \cap DOMAIN value.v :
               LeavesFollow(global, k, original.v[k], value.v[k])
    ELSE value \in Variations(original)

(***************************************************************************)
(* C15: in constrained mode a leaf field at any nesting depth whose name   *)
(* has a registered constraint receives in every variant a value of that   *)
(* constraint's generator, and a leaf with no matching constraint receives *)
(* the statistical variation of its original value.                        *)
(***************************************************************************)
C15_ConstraintsReachEveryLeaf ==
    (pc \in {"convert", "save", "done"} /\ errKind = "none" /\ useConstraints) =>
        \A i \in 1..Len(testCases) : \A k \in DOMAIN data \cap DOMAIN testCases[i] :
            LeavesFollow(globalConstraintConfig, k, data[k], testCases[i][k])

\* the keys of a registry that equal a name when letter case is ignored
KeysIgnoringCase(global, name) == {k \in DOMAIN global.Constraints : ToLower(k) = ToLower(name)}

\* what a lookup is to return: the constraint under the name itself, else one under
\* a key equal to the name ignoring case, else one under the part after the last
\* dot (exactly, then ignoring case), else none
LookupGives(global, fieldName, simpleFieldName, value) ==
    IF global.isNil THEN value = Nil
    ELSE IF fieldName \in DOMAIN global.Constraints THEN value = Ptr(global.Constraints[fieldName])
    ELSE IF KeysIgnoringCase(global, fieldName) # {}
    THEN \E k \in KeysIgnoringCase(global, fieldName) : value = Ptr(global.Constraints[k])
    ELSE IF Contains(fieldName, <<".">>) /\ simpleFieldName \in DOMAIN global.Constraints
    THEN value = Ptr(global.Constraints[simpleFieldName])
    ELSE IF Contains(fieldName, <<".">>) /\ KeysIgnoringCase(global, simpleFieldName) # {}
    THEN \E k \in KeysIgnoringCase(global, simpleFieldName) : value = Ptr(global.Constraints[k])
    ELSE value = Nil

(***************************************************************************)
(* C16: a lookup returns the constraint registered under the key equal to  *)
(* the field name exactly, else under a key equal to it ignoring letter    *)
(* case, else under a key equal to the part of the field name after its    *)
(* last dot (exactly or ignoring letter case), and no constraint otherwise.*)
(***************************************************************************)
C16_LookupOrder ==
    ret.fn = "FindFieldConstraint" =>
        LookupGives(ret.global, ret.fieldName,
                    Drop(ret.fieldName, LastIndexOf(ret.fieldName, ".")), ret.value)

\* the top-level keys of a rendered row, read back with the parser of its format
RowKeys(row, xml) ==
    IF xml THEN DOMAIN ParseXML(row, Structure).result ELSE DOMAIN ParseJSON(row, <<>>).result

(***************************************************************************)
(* C17: structural state is not shared across calls: the rows rendered for *)
(* the example parsed last hold keys of that example only, none of an      *)
(* example parsed earlier, also when the last example is an empty object   *)
(* or a document from which no key order can be extracted.                 *)
(***************************************************************************)
C17_RowsHoldOwnKeysOnly ==
    (ret.fn = "ConvertToRows" /\ ret.source = "testCases" /\ errKind = "none") =>
        \A i \in 2..Len(csvData) : RowKeys(csvData[i][1], isXML) \subseteq DOMAIN data

(***************************************************************************)
(* C18: generation and rendering leave the structural metadata captured by *)
(* the parser unchanged: the recorded key order, the XML declaration flag  *)
(* and text, the root element name and the per-field type tags stay as     *)
(* they were when the preceding parse returned.                            *)
(***************************************************************************)
C18_GenerationKeepsMetadata ==
    [][ret'.fn \in {"GenerateTestCases", "ConvertToRows"} =>
          UNCHANGED <<originalKeyOrder, originalHasXMLDeclaration, originalXMLDeclaration,
                      originalRootElementName, originalValueTypes>>]_vars

\* the top-level fields of a test case that a constraint of a given type generates
FieldsOfType(global, tc, type) ==
    {k \in DOMAIN tc :
        /\ IsSet(FindFieldConstraint(global, k))
        /\ FindFieldConstraint(global, k)[1].Type = type
        /\ FindFieldConstraint(global, k)[1].KeepOriginal # Ptr(TRUE)}

\* a string of exactly 11 decimal digits that begins with 13, 14, ... or 19
IsPhoneNumber(value) ==
    /\ value.t = "str"
    /\ Len(value.v) = 11
    /\ IsDigits(value.v)
    /\ value.v[1] = "1"
    /\ value.v[2] \in {"3", "4", "5", "6", "7", "8", "9"}

ConstrainedRunDone ==
    pc \in {"convert", "save", "done"} /\ errKind = "none" /\ useConstraints

(***************************************************************************)
(* C19: in constrained mode every value generated for a field whose        *)
(* constraint has the type phone is a string of exactly 11 decimal digits  *)
(* whose first two digits are one of 13, 14, 15, 16, 17, 18, 19.           *)
(***************************************************************************)
C19_PhoneNumbers ==
    ConstrainedRunDone =>
        \A i \in 1..Len(testCases) :
            \A k \in FieldsOfType(globalConstraintConfig, testCases[i], "phone") :
                IsPhoneNumber(testCases[i][k])

\* a run has generated the phone number 13000000000, whose nine-digit part is all
\* padding, for a field named by a phone constraint
C19_Witness ==
    /\ ConstrainedRunDone
    /\ \E i \in 1..Len(testCases) :
          \E k \in FieldsOfType(globalConstraintConfig, testCases[i], "phone") :
              testCases[i][k] = GoStr(<<"1", "3", "0", "0", "0", "0", "0", "0", "0", "0", "0">>)

\* the date a generated text names, read with the constraint's format (20060102 when
\* none is configured, else 2006-01-02)
GeneratedDate(constraint, value) ==
    ParseDateTime(IF constraint.Format = <<>> THEN value.v ELSE ReplaceAll(value.v, "-", <<>>))

(***************************************************************************)
(* C20: for every validated date constraint with min_date <= max_date      *)
(* (an omitted bound being 2020-01-01, respectively 2030-12-31) the        *)
(* generated date d satisfies min_date <= d <= max_date, and with          *)
(* min_date = max_date = 20200101 and no format the output is 20200101.    *)
(***************************************************************************)
C20_DateWithinWindow ==
    (/\ ret.fn = "GenerateConstrainedValue"
     /\ ret.constraint.Type = "date"
     /\ validateDateConstraint(<<"d">>, ret.constraint) = <<>>
     /\ ~InvertedWindow(ret.constraint)) =>
        /\ ret.value.t = "str"
        /\ ~GeneratedDate(ret.constraint, ret.value).err
        /\ ~Before(GeneratedDate(ret.constraint, ret.value).t, EffectiveMin(ret.constraint))
        /\ ~Before(EffectiveMax(ret.constraint), GeneratedDate(ret.constraint, ret.value).t)
        /\ (/\ ret.constraint.MinDate = <<"2", "0", "2", "0", "0", "1", "0", "1">>
            /\ ret.constraint.MaxDate = <<"2", "0", "2", "0", "0", "1", "0", "1">>
            /\ ret.constraint.Format = <<>>)
           => ret.value = GoStr(<<"2", "0", "2", "0", "0", "1", "0", "1">>)

\* the form sign, two decimal digits, colon, two decimal digits
HasOffsetForm(offset) ==
    /\ Len(offset) = 6
    /\ offset[1] \in {"+", "-"}
    /\ offset[2] \in Digits /\ offset[3] \in Digits
    /\ offset[4] = ":"
    /\ offset[5] \in Digits /\ offset[6] \in Digits

\* hours, minutes and the signed total of a text of that form are in range
OffsetInRange(offset) ==
    /\ DigitsVal(SubSeq(offset, 2, 3)) <= 23
    /\ DigitsVal(SubSeq(offset, 5, 6)) <= 59
    /\ (IF offset[1] = "-" THEN -1 ELSE 1)
         * (DigitsVal(SubSeq(offset, 2, 3)) * 60 + DigitsVal(SubSeq(offset, 5, 6))) \in (-12 * 60)..(14 * 60)

(***************************************************************************)
(* C21: validateTimezoneOffset accepts a text if and only if it is a sign, *)
(* two decimal digits, a colon and two decimal digits with hours <= 23,    *)
(* minutes <= 59 and a signed total within -12:00 .. +14:00.               *)
(***************************************************************************)
C21_OffsetAcceptedIffWellFormed ==
    ret.fn = "validateTimezoneOffset" =>
        (ret.value = "" <=> (HasOffsetForm(ret.offset) /\ OffsetInRange(ret.offset)))

(***************************************************************************)
(* C22: for every integer constraint that passes validation with           *)
(* min <= max (an omitted bound being 1, respectively 100), whole or       *)
(* fractional, the generated value is an integer v with min <= v <= max.   *)
(***************************************************************************)
C22_IntegerWithinBounds ==
    (/\ ret.fn = "GenerateConstrainedValue"
     /\ ret.constraint.Type = "integer"
     /\ validateIntegerConstraint(<<"n">>, ret.constraint) = <<>>
     /\ ~InvertedWindow(ret.constraint)) =>
        /\ ret.value.t = "int"
        /\ EffectiveMin(ret.constraint) <= 100 * ret.value.v
        /\ 100 * ret.value.v <= EffectiveMax(ret.constraint)

\* x / y rounded half up to a whole number of units of 10^-p
HalfUp(x, y, p) == (2 * x * Pow10(p) + y) \div (2 * y)

PrecisionOf(c) == IF IsSet(c.Precision) THEN c.Precision[1] ELSE 2

(***************************************************************************)
(* C23: for every float constraint with a precision p in 0..10 and         *)
(* min <= max the generated value is some value of [min, max] rounded      *)
(* half up to p decimal digits, negative values included, and has at most  *)
(* p decimal digits.  Rounding being monotone, the roundings of the values *)
(* of [min, max] are the multiples of 10^-p from the rounding of min to    *)
(* the rounding of max.                                                    *)
(***************************************************************************)
C23_FloatRoundedHalfUp ==
    (/\ ret.fn = "GenerateConstrainedValue"
     /\ ret.constraint.Type = "float"
     /\ PrecisionOf(ret.constraint) \in 0..10
     /\ ~InvertedWindow(ret.constraint)) =>
        /\ ret.value.t = "float"
        /\ ret.value.d <= PrecisionOf(ret.constraint)
        /\ HalfUp(EffectiveMin(ret.constraint), 100, PrecisionOf(ret.constraint))
              <= ret.value.m * Pow10(PrecisionOf(ret.constraint) - ret.value.d)
        /\ ret.value.m * Pow10(PrecisionOf(ret.constraint) - ret.value.d)
              <= HalfUp(EffectiveMax(ret.constraint), 100, PrecisionOf(ret.constraint))

\* the variation of the int64 a numeric string stands for, at the same random draw
ScalarVariation(text, r) == generateVariation(GoInt("int64", IntLitVal(text)), r)

\* max(1, round(|n| * 0.5))
HalfAtLeastOne(n) == IF (Abs(n) + 1) \div 2 < 1 THEN 1 ELSE (Abs(n) + 1) \div 2

(***************************************************************************)
(* C24: the statistical variation of a numeric string applies the          *)
(* arithmetic of the numeric scalar: for an integer string, of any sign,   *)
(* it completes and returns the decimal text of an integer within          *)
(* max(1, round(|original| * 0.5)) of the original, the text of what the   *)
(* integer scalar gives at the same random draw (so with a window of at    *)
(* least 1 either way); for a float string the result keeps the number of  *)
(* decimal places of the original.                                         *)
(***************************************************************************)
C24_NumericStringVariation ==
    (/\ ret.fn = "generateVariation"
     /\ ret.original.t = "str"
     /\ IsFloatLit(ret.original.v)) =>
        /\ ~IsPanic(ret.value)
        /\ ret.value.t = "str"
        /\ IF IsIntLit(ret.original.v)
           THEN /\ IsIntLit(ret.value.v)
                /\ ret.value.v = IntStr(IntLitVal(ret.value.v))
                /\ Abs(IntLitVal(ret.value.v) - IntLitVal(ret.original.v))
                      <= HalfAtLeastOne(IntLitVal(ret.original.v))
                /\ ~IsPanic(ScalarVariation(ret.original.v, ret.draw))
                /\ ret.value.v = IntStr(ScalarVariation(ret.original.v, ret.draw).v)
           ELSE /\ IsFloatLit(ret.value.v)
                /\ decimalPlacesOf(ret.value.v) = decimalPlacesOf(ret.original.v)

(***************************************************************************)
(* C25: for every well-formed JSON object text extractJSONKeys returns     *)
(* exactly the top-level keys of the object in order of appearance,        *)
(* whatever white space the text uses and whatever its keys and string     *)
(* values contain, and never a key of a nested object.                     *)
(***************************************************************************)
C25_TopLevelJSONKeys ==
    (ret.fn = "extractJSONKeys" /\ TopKeys(FALSE, ret.text).ok) =>
        ret.value = TopKeys(FALSE, ret.text).keys

\* a sequence without the later copies of its elements
RECURSIVE FirstSeen(_, _)
FirstSeen(s, acc) ==
    IF s = <<>> THEN acc
    ELSE FirstSeen(Tail(s), IF \E i \in 1..Len(acc) : acc[i] = Head(s) THEN acc ELSE Append(acc, Head(s)))

(***************************************************************************)
(* C26: for every well-formed XML document extractXMLKeys returns exactly  *)
(* the distinct tag names of the direct children of the root element in    *)
(* first-seen order: no tag of a nested subtree, no direct child left out, *)
(* also when a child has the root's name, when a self-closing child is     *)
(* followed later by a sibling of its name, and when a child repeats.      *)
(***************************************************************************)
C26_DirectChildrenOfRoot ==
    (ret.fn = "extractXMLKeys" /\ TopKeys(TRUE, ret.text).ok) =>
        /\ ~ret.value.panic
        /\ ret.value.keys = FirstSeen(TopKeys(TRUE, ret.text).keys, <<>>)

(***************************************************************************)
(* SendConcurrentRequests (utils/http.go): the calling goroutine and the   *)
(* worker goroutines it starts, one action per step of each.  A channel is *)
(* its buffer; a send waits while the buffer is full and a receive while   *)
(* it is empty and the channel is open.                                    *)
(***************************************************************************)
MaxRequests == 2        \* a call is given 0..MaxRequests requests
MaxConcurrency == 3     \* and a concurrency of -1..MaxConcurrency

\* the request lists given to a call: n requests, each with a body of its own
RequestLists ==
    {[i \in 1..n |-> HTTPRequest("POST", "application/json", <<DigitChar(i)>>)] : n \in 0..MaxRequests}

total == Len(requests)

\* everything a call of SendConcurrentRequests leaves alone
SendFrame ==
    UNCHANGED <<pc, xmlContent, jsonContent, errKind, errEntries, inputContent, isXML, num, configFile,
                useConstraints, originalKeyOrder, originalValueTypes, originalRootElementName,
                originalHasXMLDeclaration, originalXMLDeclaration, globalConstraintConfig,
                data, testCases, csvData, csvFile, lastLoad, calls, ret, exec>>

\* http.go:99-112: the call, with its arguments; the slice and the channels are made
SendStart ==
    /\ pc = "send"
    /\ main.pc = "idle"
    /\ \E reqs \in RequestLists : \E c \in -1..MaxConcurrency :
          /\ requests' = reqs
          /\ concurrency' = IF c <= 0 THEN 1 ELSE c
          /\ responses' = [i \in 1..Len(reqs) |-> ZeroResponse]
          /\ produced' = [i \in 1..Len(reqs) |-> <<>>]
          /\ workers' = [w \in 1..(IF c <= 0 THEN 1 ELSE c) |-> [pc |-> "unborn", j |-> 0, resp |-> ZeroResponse]]
          /\ main' = [pc |-> "spawn", w |-> 1, j |-> 0, a |-> 0, arg |-> c]
    /\ jobs' = [buf |-> <<>>, closed |-> FALSE]
    /\ results' = <<>>
    /\ SendFrame

\* http.go:115-125: one turn of the loop that starts the workers
MainSpawn ==
    /\ main.pc = "spawn"
    /\ IF main.w <= concurrency
       THEN /\ workers' = [workers EXCEPT ![main.w].pc = "range"]
            /\ main' = [main EXCEPT !.w = main.w + 1]
       ELSE /\ main' = [main EXCEPT !.pc = "send"]
            /\ UNCHANGED workers
    /\ UNCHANGED <<requests, concurrency, responses, jobs, results, produced>>
    /\ SendFrame

\* http.go:128-130: one turn of the loop that sends the jobs (jobs <- j)
MainSendJob ==
    /\ main.pc = "send"
    /\ IF main.j < total
       THEN /\ Len(jobs.buf) < total
            /\ jobs' = [jobs EXCEPT !.buf = Append(jobs.buf, main.j + 1)]
            /\ main' = [main EXCEPT !.j = main.j + 1]
       ELSE /\ main' = [main EXCEPT !.pc = "close"]
            /\ UNCHANGED jobs
    /\ UNCHANGED <<requests, concurrency, responses, results, workers, produced>>
    /\ SendFrame

\* a caller that leaves the job channel open
MainSkipClose ==
    /\ main.pc = "close"
    /\ main' = [main EXCEPT !.pc = "collect"]
    /\ UNCHANGED <<requests, concurrency, responses, jobs, results, workers, produced>>
    /\ SendFrame

\* http.go:131: close(jobs)
MainClose ==
    /\ main.pc = "close"
    /\ jobs' = [jobs EXCEPT !.closed = TRUE]
    /\ main' = [main EXCEPT !.pc = "collect"]
    /\ UNCHANGED <<requests, concurrency, responses, results, workers, produced>>
    /\ SendFrame

\* a caller that stores the results in their order of arrival
MainCollectInArrivalOrder ==
    /\ main.pc = "collect"
    /\ IF main.a < total
       THEN /\ results # <<>>
            /\ responses' = [responses EXCEPT ![main.a + 1] = Head(results).response]
            /\ results' = Tail(results)
            /\ main' = [main EXCEPT !.a = main.a + 1]
       ELSE /\ main' = [main EXCEPT !.pc = "returned"]
            /\ UNCHANGED <<responses, results>>
    /\ UNCHANGED <<requests, concurrency, jobs, workers, produced>>
    /\ SendFrame

\* http.go:134-139: one turn of the loop that collects the results (<-results), then
\* the return
MainCollect ==
    /\ main.pc = "collect"
    /\ IF main.a < total
       THEN /\ results # <<>>
            /\ responses' = [responses EXCEPT ![Head(results).index] = Head(results).response]
            /\ results' = Tail(results)
            /\ main' = [main EXCEPT !.a = main.a + 1]
       ELSE /\ main' = [main EXCEPT !.pc = "returned"]
            /\ UNCHANGED <<responses, results>>
    /\ UNCHANGED <<requests, concurrency, jobs, workers, produced>>
    /\ SendFrame

\* http.go:117: for j := range jobs, the next job or the end of the loop
WorkerReceive(w) ==
    /\ w \in DOMAIN workers
    /\ workers[w].pc = "range"
    /\ IF jobs.buf # <<>>
       THEN /\ workers' = [workers EXCEPT ![w].pc = "request", ![w].j = Head(jobs.buf)]
            /\ jobs' = [jobs EXCEPT !.buf = Tail(jobs.buf)]
       ELSE /\ jobs.closed
            /\ workers' = [workers EXCEPT ![w].pc = "exited"]
            /\ UNCHANGED jobs
    /\ UNCHANGED <<requests, concurrency, responses, results, main, produced>>
    /\ SendFrame

\* http.go:118: resp := SendRequest(requests[j])
WorkerSendRequest(w) ==
    /\ w \in DOMAIN workers
    /\ workers[w].pc = "request"
    /\ \E resp \in SendRequest(requests[workers[w].j]) :
          /\ workers' = [workers EXCEPT ![w].pc = "deliver", ![w].resp = resp]
          /\ produced' = [produced EXCEPT ![workers[w].j] = Append(produced[workers[w].j], resp)]
    /\ UNCHANGED <<requests, concurrency, responses, jobs, results, main>>
    /\ SendFrame

\* http.go:119-122: results <- {j, resp}; the next turn of the loop has new locals
WorkerDeliver(w) ==
    /\ w \in DOMAIN workers
    /\ workers[w].pc = "deliver"
    /\ Len(results) < total
    /\ results' = Append(results, [index |-> workers[w].j, response |-> workers[w].resp])
    /\ workers' = [workers EXCEPT ![w] = [pc |-> "range", j |-> 0, resp |-> ZeroResponse]]
    /\ UNCHANGED <<requests, concurrency, responses, jobs, main, produced>>
    /\ SendFrame

SendInit ==
    /\ Fresh
    /\ pc = "send"
    /\ xmlContent = NoText
    /\ jsonContent = NoText
    /\ num = 0
    /\ configFile = NoFile
    /\ exec = FALSE

MainStep == MainSpawn \/ MainSendJob \/ MainClose \/ MainCollect

WorkerStep(w) == WorkerReceive(w) \/ WorkerSendRequest(w) \/ WorkerDeliver(w)

SendNext ==
    \/ SendStart
    \/ MainSpawn
    \/ MainSendJob
    \/ MainClose
    \/ MainCollect
    \/ \E w \in 1..MaxConcurrency : WorkerReceive(w)
    \/ \E w \in 1..MaxConcurrency : WorkerSendRequest(w)
    \/ \E w \in 1..MaxConcurrency : WorkerDeliver(w)

SendSpec == SendInit /\ [][SendNext]_vars

\* the Go scheduler runs every goroutine that can take a step, and every SendRequest returns
SendLiveSpec ==
    /\ SendSpec
    /\ WF_vars(MainStep)
    /\ \A w \in 1..MaxConcurrency : WF_vars(WorkerStep(w))

\* the call has returned; every worker goroutine has left its loop
Returned == main.pc = "returned"
AllExited == \A w \in DOMAIN workers : workers[w].pc = "exited"

(***************************************************************************)
(* C27: the slice SendConcurrentRequests returns has the length of the     *)
(* request list, its element i is the response produced for request i,     *)
(* and every request is sent exactly once (never twice at any moment),     *)
(* under every interleaving and for every concurrency.                     *)
(***************************************************************************)
C27_ResponsesMatchRequests ==
    /\ main.pc # "idle" => \A i \in 1..total : Len(produced[i]) <= 1
    /\ Returned =>
          /\ Len(responses) = total
          /\ \A i \in 1..total : Len(produced[i]) = 1 /\ responses[i] = produced[i][1]

\* two different requests were answered by two workers and the call has returned,
\* the concurrency given being larger than the number of requests
C27_Witness ==
    /\ Returned
    /\ total = 2
    /\ main.arg > total
    /\ responses[1].StatusCode = 200 /\ responses[2].StatusCode = 200
    /\ responses[1] # responses[2]

\* a call given a concurrency of zero or less has returned its responses
C27_WitnessOneWorker ==
    Returned /\ total = 2 /\ main.arg <= 0 /\ concurrency = 1 /\ responses[2].StatusCode = 200

(***************************************************************************)
(* C28: every SendRequest returning, a call of SendConcurrentRequests      *)
(* returns, whatever the number of requests (zero included) and the        *)
(* concurrency, and once it has returned every worker goroutine has        *)
(* exited: no goroutine waits forever on the job or the result channel.    *)
(***************************************************************************)
C28_SendTerminates == (main.pc = "spawn") ~> (Returned /\ AllExited)

\* a call with the largest request list and concurrency has returned and its workers are gone
C28_Witness ==
    Returned /\ AllExited /\ total = MaxRequests /\ concurrency = MaxConcurrency

\* the kinds of error a load of a configuration ends with
LoadErrors == {"LoadError", "ConfigError"}

\* a step that ends in a failed load leaves the registry as it was
FailedLoadKeepsRegistry == [][errKind' \in LoadErrors => UNCHANGED globalConstraintConfig]_vars

\* after a failed load of a direct caller, lookups answer from the configuration of
\* the last successful load
LookupFromLastSuccess ==
    (pc = "lib" /\ errKind \in LoadErrors /\ lastLoad # NoFile) =>
        \A f \in FieldNames :
            FindFieldConstraint(globalConstraintConfig, f) = FindFieldConstraint(RegistryOf(lastLoad), f)

\* a direct caller's load has failed with a registry in place from an earlier load
FailedReload == pc = "lib" /\ errKind \in LoadErrors /\ lastLoad # NoFile /\ ~globalConstraintConfig.isNil

(***************************************************************************)
(* C29: a load of a configuration that fails (the file cannot be read,     *)
(* its text does not parse, or validation reports errors) leaves the       *)
(* process-wide constraint configuration as it was before the call, and    *)
(* lookups after a failed reload answer from the configuration of the last *)
(* successful load.                                                        *)
(***************************************************************************)
C29_FailedLoadChangesNothing == FailedLoadKeepsRegistry /\ []LookupFromLastSuccess

\* the run has sent its generated cases
Executed == pc = "done" /\ exec /\ Len(calls) > 0 /\ calls[Len(calls)] = "executeTestCasesDirectly"

\* the Content-Type of the format of the run
FormatContentType == IF isXML THEN "application/xml" ELSE "application/json"

\* request i carries the text of data row i of the written file, under the
\* Content-Type of the format
SendsRow(i) ==
    /\ requests[i].Body = csvFile.rows[i + 1][1]
    /\ requests[i].ContentType = FormatContentType

\* shared.go:57-89 and request.go:334-384: the requests that executing the written
\* file with the parameters of the run builds
RequestsOfFile ==
    buildHTTPRequestsWithAuth(parseCSVToTestCases(csvFile.rows).testCases,
                              RequestParams(configFile, isXML).Method, ~isXML, isXML)

(***************************************************************************)
(* C30: when a local-gen run executes its cases, the body of the request   *)
(* built for the i-th generated case is the text of the i-th data row      *)
(* written to the output file and its Content-Type is that of the format;  *)
(* the requests are those that executing the written file would build.     *)
(***************************************************************************)
C30_ExecuteSendsSavedRows ==
    Executed =>
        /\ Len(requests) = Len(testCases)
        /\ \A i \in 1..Len(requests) : SendsRow(i)
        /\ requests = RequestsOfFile

\* a run that executes a JSON example by POST has sent its cases
C30_PostJSON ==
    Executed /\ ~isXML /\ requests # <<>> /\ requests[1].Method = <<"P", "O", "S", "T">>

\* the cases in which the sent requests are those of the written file
C30_Agrees == Executed /\ requests # <<>> /\ \A i \in 1..Len(requests) : SendsRow(i)

====
